---- MODULE Spec2Model ----
(***************************************************************************)
(* A model of src/renderer/components/chart/bar-chart.tsx: the BarChart    *)
(* render pass (dataset normalisation, option composition with the caller  *)
(* overrides, the "no data" exit) and the callbacks it binds into the      *)
(* configuration (time-axis labels, tooltip title, axis tick formatters of *)
(* memoryOptions and cpuOptions).                                          *)
(*                                                                         *)
(* The values of option trees are modelled as tagged nodes:                *)
(*   [k |-> "leaf", v |-> s]          a primitive, named by s              *)
(*   [k |-> "undef"]                  the value undefined                  *)
(*   [k |-> "obj", f |-> m]           a plain object, m maps property keys *)
(*   [k |-> "arr", f |-> m]           an array, m maps "0", "1", ... (and  *)
(*                                    any other property it was given)     *)
(*   [k |-> "fn", v |-> s, f |-> m]   the function named s, m maps the     *)
(*                                    properties it was given              *)
(*   [k |-> "absent"]                 no property at all (only a lookup's  *)
(*                                    answer)                              *)
(* Numbers are the IEEE 754 doubles, each held by its exact decimal        *)
(* expansion. Strings are sequences of one-character strings.              *)
(***************************************************************************)
EXTENDS Integers, Sequences, FiniteSets, TLC

VARIABLES
    themeStore,   \* themeStore.activeTheme.colors, owned by the theme store
    props,        \* the props of the last BarChart render pass
    result,       \* what the last render pass returned
    savedName,    \* savedName.current
    effect,       \* the effect of the last pass, until React has run it
    seenTheme,    \* the theme store's colors at the moment of the last pass
    clock,        \* the host's wall clock, new Date().getTime(), and its zone
    tick,         \* the last call of a tick callback: its arguments and result
    tooltip,      \* the last call of the tooltip title callback
    merged        \* the last application of merge to a pair of option trees

vars == <<themeStore, props, result, savedName, effect, seenTheme, clock, tick, tooltip, merged>>

----------------------------------------------------------------------------
(* Bounds *)

MaxDatasets == 3

MaxArrayLen == 2

MaxStep == 3

MaxIndex == 61

MaxTickValue == 200

MaxNow == 4

----------------------------------------------------------------------------
(* JavaScript values *)

Leaf(v) == [k |-> "leaf", v |-> v]

Undefined == [k |-> "undef"]

Absent == [k |-> "absent"]

NoKeys == [key \in {} |-> Absent]

\* a function, with no property of its own making
Fn(name) == [k |-> "fn", v |-> name, f |-> NoKeys]

Obj(f) == [k |-> "obj", f |-> f]

IdxKey(i) == ToString(i - 1)

Arr(s) ==
    [k |-> "arr",
     f |-> [key \in {IdxKey(i) : i \in 1..Len(s)} |->
               s[CHOOSE i \in 1..Len(s) : IdxKey(i) = key]]]

EmptyObj == Obj(NoKeys)

EmptyArr == Arr(<<>>)

\* a plain object or an array
IsContainer(node) == node.k \in {"obj", "arr"}

\* isObject(value): an object, an array or a function, which hold properties
IsObject(node) == node.k \in {"obj", "arr", "fn"}

\* a value that merge assigns as it is: a primitive or a function
IsValueLeaf(node) == node.k \in {"leaf", "fn"}

\* the function named name, whatever properties it was given
IsFunction(node, name) == node.k = "fn" /\ node.v = name

RECURSIVE Get(_, _)
\* the value at a property path, Absent when a step of the path is missing
Get(node, path) ==
    IF path = <<>> THEN node
    ELSE IF IsObject(node) /\ Head(path) \in DOMAIN node.f
         THEN Get(node.f[Head(path)], Tail(path))
         ELSE Absent

RECURSIVE Paths(_)
\* every non-empty property path of a node
Paths(node) ==
    IF ~IsObject(node) THEN {}
    ELSE UNION {{<<key>>} \cup {<<key>> \o q : q \in Paths(node.f[key])} :
                  key \in DOMAIN node.f}

\* the number of index properties "0", "1", ... of an array node
ArrayLength(node) ==
    Cardinality({i \in 1..Cardinality(DOMAIN node.f) : IdxKey(i) \in DOMAIN node.f})

----------------------------------------------------------------------------
(* lodash merge, as bar-chart.tsx:141 uses it: merge(object, source)       *)
(* assigns the source's own properties into object, recursively.           *)

\* always a fresh array: the source array would replace the object's
arrayTargetFresh(objValue) == EmptyArr

\* the destination an array source value is merged into: the object's value
\* when that is an array, else a fresh array
arrayTarget(objValue) ==
    IF objValue.k = "arr" THEN objValue ELSE EmptyArr

\* the destination a plain-object source value is merged into: the object's
\* value when that is an object, an array or a function (isObject, and the
\* one source of merge(object, source) has index 0), else a fresh object
objectTarget(objValue) ==
    IF IsObject(objValue) THEN objValue ELSE EmptyObj

RECURSIVE baseMerge(_, _)
\* object with the source's properties merged into it; object stays what it
\* was, a plain object, an array or a function
baseMerge(object, source) ==
    [object EXCEPT
        !.f = [key \in DOMAIN object.f \cup DOMAIN source.f |->
                 IF key \notin DOMAIN source.f THEN object.f[key]
                 ELSE LET srcValue == source.f[key]
                          objValue == IF key \in DOMAIN object.f
                                      THEN object.f[key] ELSE Absent
                      IN  CASE srcValue.k = "arr" ->
                                 baseMerge(arrayTarget(objValue), srcValue)
                            [] srcValue.k = "obj" ->
                                 baseMerge(objectTarget(objValue), srcValue)
                            [] srcValue.k = "undef" ->
                                 \* assignMergeValue: undefined is assigned only
                                 \* to a key the object does not have
                                 IF key \in DOMAIN object.f THEN objValue
                                 ELSE Undefined
                            [] OTHER -> srcValue]]

\* Object.assign-like: the source's top-level properties replace the object's
mergeShallow(object, source) ==
    IF ~IsObject(source) THEN object
    ELSE [object EXCEPT
            !.f = [key \in DOMAIN object.f \cup DOMAIN source.f |->
                     IF key \in DOMAIN source.f /\ source.f[key].k # "undef"
                     THEN source.f[key]
                     ELSE IF key \in DOMAIN object.f THEN object.f[key]
                          ELSE Undefined]]

\* the properties a string holds: its characters, by index
stringProperties(chars) ==
    [key \in {IdxKey(i) : i \in 1..Len(chars)} |->
        Leaf(chars[CHOOSE i \in 1..Len(chars) : IdxKey(i) = key])]

\* merge(object, source): the source's properties are merged into object, those
\* of an object, an array or a function, and the characters of a string (a
\* Str of its characters); a source of undefined (no caller options) or of
\* another primitive has none
merge(object, source) ==
    IF IsObject(source) THEN baseMerge(object, source)
    ELSE IF source.k = "str" THEN baseMerge(object, Obj(stringProperties(source.s)))
    ELSE object

----------------------------------------------------------------------------
(* The option trees of the source *)

ChartKindBAR == Leaf("bar")

\* barOptions of one render pass, from the theme colors read in that pass
barOptions(colors) ==
    Obj([maintainAspectRatio |-> Leaf("false"),
         responsive |-> Leaf("true"),
         scales |-> Obj([
            xAxes |-> Arr(<<Obj([
                type |-> Leaf("time"),
                offset |-> Leaf("true"),
                gridLines |-> Obj([display |-> Leaf("false")]),
                stacked |-> Leaf("true"),
                ticks |-> Obj([
                    callback |-> Fn("formatTimeLabels"),
                    autoSkip |-> Leaf("false"),
                    source |-> Leaf("data"),
                    backdropColor |-> Leaf("white"),
                    fontColor |-> Leaf(colors.textColorPrimary),
                    fontSize |-> Leaf("11"),
                    maxRotation |-> Leaf("0"),
                    minRotation |-> Leaf("0")]),
                bounds |-> Leaf("data"),
                time |-> Obj([
                    unit |-> Leaf("minute"),
                    displayFormats |-> Obj([minute |-> Leaf("x")]),
                    parser |-> Fn("time.parser")])])>>),
            yAxes |-> Arr(<<Obj([
                position |-> Leaf("right"),
                gridLines |-> Obj([
                    color |-> Leaf(colors.borderFaintColor),
                    drawBorder |-> Leaf("false"),
                    tickMarkLength |-> Leaf("0"),
                    zeroLineWidth |-> Leaf("0")]),
                ticks |-> Obj([
                    maxTicksLimit |-> Leaf("6"),
                    fontColor |-> Leaf(colors.textColorPrimary),
                    fontSize |-> Leaf("11"),
                    padding |-> Leaf("8"),
                    min |-> Leaf("0")])])>>)]),
         tooltips |-> Obj([
            mode |-> Leaf("index"),
            position |-> Leaf("cursor"),
            callbacks |-> Obj([
                title |-> Fn("tooltips.callbacks.title"),
                labelColor |-> Fn("tooltips.callbacks.labelColor")])]),
         animation |-> Obj([duration |-> Leaf("0")]),
         elements |-> Obj([rectangle |-> Obj([
            backgroundColor |-> Fn("getBarColor")])]),
         plugins |-> Obj([ZebraStripes |-> Obj([
            stripeColor |-> Leaf(colors.chartStripesColor)])])])

memoryOptions ==
    Obj([scales |-> Obj([
            yAxes |-> Arr(<<Obj([
                ticks |-> Obj([
                    callback |-> Fn("memoryOptions.ticks.callback"),
                    stepSize |-> Leaf("1")])])>>)]),
         tooltips |-> Obj([
            callbacks |-> Obj([label |-> Fn("memoryOptions.tooltips.label")])])])

cpuOptions ==
    Obj([scales |-> Obj([
            yAxes |-> Arr(<<Obj([
                ticks |-> Obj([
                    callback |-> Fn("cpuOptions.ticks.callback")])])>>)]),
         tooltips |-> Obj([
            callbacks |-> Obj([label |-> Fn("cpuOptions.tooltips.label")])])])

----------------------------------------------------------------------------
(* Numbers and strings *)

\* JavaScript numbers are the IEEE 754 doubles. A finite one is held by its
\* exact decimal expansion: the digits of its integer part (none for a value
\* below 1) and of its fraction (no trailing zeros); -0 is held as 0.
NaN == [k |-> "nan"]

Infinity(neg) == [k |-> "inf", neg |-> neg]

Zero == [k |-> "num", neg |-> FALSE, int |-> <<>>, frac |-> <<>>]

DigitChars == {"0", "1", "2", "3", "4", "5", "6", "7", "8", "9"}

DigitOf == [c \in DigitChars |-> CHOOSE d \in 0..9 : ToString(d) = c]

HexChars ==
    DigitChars \cup {"a", "b", "c", "d", "e", "f", "A", "B", "C", "D", "E", "F"}

HexDigitOf ==
    [c \in HexChars |->
        IF c \in DigitChars THEN DigitOf[c]
        ELSE CASE c \in {"a", "A"} -> 10 [] c \in {"b", "B"} -> 11
               [] c \in {"c", "C"} -> 12 [] c \in {"d", "D"} -> 13
               [] c \in {"e", "E"} -> 14 [] c \in {"f", "F"} -> 15]

\* white space and line terminators that parseInt, parseFloat and the date
\* scanner skip. A character is written as itself, and one that has no
\* printable form as its escape: "\\u000b" is the one character U+000B
WhiteSpaceChars ==
    {"\t", "\n", "\\u000b", "\f", "\r", " ", "\\u00a0", "\\u1680",
     "\\u2000", "\\u2001", "\\u2002", "\\u2003", "\\u2004", "\\u2005",
     "\\u2006", "\\u2007", "\\u2008", "\\u2009", "\\u200a",
     "\\u2028", "\\u2029", "\\u202f", "\\u205f", "\\u3000", "\\ufeff"}

\* a sequence given as a function, with its elements computed once
Tuple(f) == f \o <<>>

\* body(x), for a value x that is computed once, before body(x) is, and
\* used many times
With(x, body(_)) == IF x = x THEN body(x) ELSE body(x)

ToChars(ds) == Tuple([i \in 1..Len(ds) |-> ToString(ds[i])])

ToDigits(chars) == Tuple([i \in 1..Len(chars) |-> DigitOf[chars[i]]])

Zeros(n) == Tuple([i \in 1..n |-> 0])

\* a digit sequence without its leading zeros
Strip0(ds) ==
    LET nz == {i \in 1..Len(ds) : ds[i] # 0}
    IN  IF nz = {} THEN <<>>
        ELSE SubSeq(ds, CHOOSE i \in nz : \A j \in nz : i <= j, Len(ds))

\* a digit sequence without its trailing zeros
StripTrail0(ds) ==
    LET nz == {i \in 1..Len(ds) : ds[i] # 0}
    IN  IF nz = {} THEN <<>>
        ELSE SubSeq(ds, 1, CHOOSE i \in nz : \A j \in nz : i >= j)

RECURSIVE Digits(_)
\* the decimal digits of a natural number, none for 0
Digits(n) == IF n = 0 THEN <<>> ELSE Append(Digits(n \div 10), n % 10)

\* the last w decimal digits of a natural number, zero-padded
PadDigits(n, w) == Tuple([i \in 1..w |-> (n \div (10 ^ (w - i))) % 10])

RECURSIVE DigitsValue(_, _)
\* the number a short run of digits denotes, after the digits read so far:
\* that of its left half read first, then that of its right half
DigitsValue(ds, acc) ==
    IF Len(ds) <= 1 THEN (IF ds = <<>> THEN acc ELSE 10 * acc + ds[1])
    ELSE LET h == Len(ds) \div 2
         IN  (10 ^ (Len(ds) - h)) * DigitsValue(SubSeq(ds, 1, h), acc)
             + DigitsValue(SubSeq(ds, h + 1, Len(ds)), 0)

\* the order of two naturals given by their digits: -1, 0 or 1
CmpNat(a, b) ==
    IF Len(a) # Len(b) THEN (IF Len(a) < Len(b) THEN -1 ELSE 1)
    ELSE IF a = b THEN 0
    ELSE LET i == CHOOSE j \in 1..Len(a) :
                      a[j] # b[j] /\ \A h \in 1..(j - 1) : a[h] = b[h]
         IN  IF a[i] < b[i] THEN -1 ELSE 1

RECURSIVE MulAddNat(_, _, _)
\* ds * m + c for a small multiplier m and a small c
MulAddNat(ds, m, c) ==
    IF ds = <<>> THEN Digits(c)
    ELSE LET v == ds[Len(ds)] * m + c
         IN  Append(MulAddNat(SubSeq(ds, 1, Len(ds) - 1), m, v \div 10), v % 10)

\* ds + 1
IncNat(ds) ==
    LET n == Len(ds)
        low == {i \in 1..n : ds[i] # 9}
    IN  IF low = {} THEN <<1>> \o Zeros(n)
        ELSE LET p == CHOOSE i \in low : \A j \in low : i >= j
             IN  Tuple([i \in 1..n |-> IF i < p THEN ds[i]
                                       ELSE IF i = p THEN ds[i] + 1 ELSE 0])

RECURSIVE DivModNat(_, _, _, _)
\* quotient and remainder of ds by a small divisor m
DivModNat(ds, m, q, r) ==
    IF ds = <<>> THEN [q |-> Strip0(q), r |-> r]
    ELSE LET v == r * 10 + Head(ds)
         IN  DivModNat(Tail(ds), m, Append(q, v \div m), v % m)

\* Binary and decimal digits are converted Chunk binary places at a time:
\* 2^Chunk and 5^Chunk divide 10^Chunk, so the remainder a long division by
\* either leaves at a digit is that of the Chunk digits before it.
Chunk == 9

\* the digits of the quotient of ds by m, place by place, for m dividing 10^k
DivPow(ds, m, k) ==
    LET before(i) == DigitsValue(SubSeq(ds, IF i > k THEN i - k ELSE 1, i - 1), 0) % m
    IN  Tuple([i \in 1..Len(ds) |-> (before(i) * 10 + ds[i]) \div m])

\* the k binary digits of a natural below 2^k
BitsOf(n, k) == Tuple([i \in 1..k |-> (n \div (2 ^ (k - i))) % 2])

RECURSIVE BitsValue(_, _)
\* the number a short run of binary digits denotes, after those read so far
BitsValue(bits, acc) ==
    IF Len(bits) <= 1 THEN (IF bits = <<>> THEN acc ELSE 2 * acc + bits[1])
    ELSE LET h == Len(bits) \div 2
         IN  (2 ^ (Len(bits) - h)) * BitsValue(SubSeq(bits, 1, h), acc)
             + BitsValue(SubSeq(bits, h + 1, Len(bits)), 0)

RECURSIVE NatBitsPadded(_)
NatBitsPadded(ds) ==
    IF ds = <<>> THEN <<>>
    ELSE With(Strip0(DivPow(ds, 2 ^ Chunk, Chunk)), LAMBDA quotient :
             NatBitsPadded(quotient)
             \o BitsOf(DigitsValue(SubSeq(ds, IF Len(ds) > Chunk
                                              THEN Len(ds) - Chunk + 1 ELSE 1,
                                          Len(ds)), 0) % (2 ^ Chunk),
                       Chunk))

\* the binary digits of a natural, most significant first
NatBits(ds) == Strip0(NatBitsPadded(ds))

RECURSIVE NatOfBits(_, _)
\* the natural with the binary digits bits, after the digits acc read so far
NatOfBits(bits, acc) ==
    IF bits = <<>> THEN acc
    ELSE LET k == IF Len(bits) % Chunk = 0 THEN Chunk ELSE Len(bits) % Chunk
             c == BitsValue(SubSeq(bits, 1, k), 0)
         IN  With(Strip0(DivPow(acc \o PadDigits(c * (5 ^ k), k), 5 ^ k, k)),
                  LAMBDA read : NatOfBits(SubSeq(bits, k + 1, Len(bits)), read))

\* 2^k * 0.fs: its integer part and the fraction that is left
FracMul(fs, k) ==
    LET r == DivPow(fs \o Zeros(k), 5 ^ k, k)
    IN  [carry |-> DigitsValue(SubSeq(r, 1, k), 0),
         f |-> StripTrail0(SubSeq(r, k + 1, Len(r)))]

RECURSIVE FracBits(_, _, _)
\* the first count binary digits of 0.fs and the fraction they leave
FracBits(fs, count, acc) ==
    IF count = 0 THEN [bits |-> acc, rest |-> fs]
    ELSE LET k == IF count < Chunk THEN count ELSE Chunk
         IN  With(FracMul(fs, k), LAMBDA d :
                 FracBits(d.f, count - k, acc \o BitsOf(d.carry, k)))

RECURSIVE FracOfBits(_, _)
\* the decimal digits of the binary fraction 0.bits, acc being those of the
\* binary digits that followed bits
FracOfBits(bits, acc) ==
    IF bits = <<>> THEN acc
    ELSE LET k == IF Len(bits) < Chunk THEN Len(bits) ELSE Chunk
             c == BitsValue(SubSeq(bits, Len(bits) - k + 1, Len(bits)), 0)
         IN  With(DivPow(PadDigits(c, k) \o acc \o Zeros(k), 2 ^ k, k), LAMBDA r :
                 FracOfBits(SubSeq(bits, 1, Len(bits) - k),
                            StripTrail0(SubSeq(r, k + 1, Len(r)))))

RECURSIVE LeadingZeroBits(_, _, _)
\* how many zeros the binary expansion of 0.fs starts with, up to limit
LeadingZeroBits(fs, n, limit) ==
    IF n >= limit \/ fs = <<>> THEN n
    ELSE With(FracMul(fs, Chunk), LAMBDA d :
             IF d.carry = 0 THEN LeadingZeroBits(d.f, n + Chunk, limit)
             ELSE n + Chunk - Len(Strip0(BitsOf(d.carry, Chunk))))

\* bits + 1
IncBits(bits) ==
    LET n == Len(bits)
        low == {i \in 1..n : bits[i] = 0}
    IN  IF low = {} THEN <<1>> \o Zeros(n)
        ELSE LET p == CHOOSE i \in low : \A j \in low : i >= j
             IN  Tuple([i \in 1..n |-> IF i < p THEN bits[i]
                                       ELSE IF i = p THEN 1 ELSE 0])

MantissaBits == 53

MaxBinaryExponent == 1024

MinBinaryExponent == -1074

MkNum(neg, int, frac) ==
    IF int = <<>> /\ frac = <<>> THEN Zero
    ELSE [k |-> "num", neg |-> neg, int |-> int, frac |-> frac]

\* 2^53: every integer up to it is a double
MaxExactInteger == NatOfBits(<<1>> \o Zeros(MantissaBits), <<>>)

\* the double nearest to the decimal int.frac (ties to even), which is
\* infinite from 2^1024 - 2^970 on
toDouble(neg, int0, frac0) ==
    With([int |-> Strip0(int0), frac |-> StripTrail0(frac0)], LAMBDA d :
    IF d.frac = <<>> /\ CmpNat(d.int, MaxExactInteger) <= 0
    THEN MkNum(neg, d.int, <<>>) ELSE
    With(NatBits(d.int), LAMBDA I :
    \* the places kept after the binary point
    With(IF Len(I) >= MantissaBits THEN 0
         ELSE IF Len(I) >= 1 THEN MantissaBits - Len(I)
         ELSE With(LeadingZeroBits(d.frac, 0, 1 - MinBinaryExponent), LAMBDA z :
                  IF z + MantissaBits < -MinBinaryExponent
                  THEN z + MantissaBits ELSE -MinBinaryExponent), LAMBDA K :
    With(FracBits(d.frac, IF Len(I) > MantissaBits THEN 0 ELSE K + 1, <<>>),
         LAMBDA fb :
    LET nb == Len(I)
        \* the places of the integer part dropped
        Z == IF nb > MantissaBits THEN nb - MantissaBits ELSE 0
        X == IF Z > 0 THEN SubSeq(I, 1, MantissaBits)
             ELSE I \o SubSeq(fb.bits, 1, K)
        round == IF Z > 0 THEN I[MantissaBits + 1] ELSE fb.bits[K + 1]
        sticky == \/ fb.rest # <<>>
                  \/ \E i \in (MantissaBits + 2)..nb : I[i] = 1
    IN  With(IF round = 1 /\ (sticky \/ (X # <<>> /\ X[Len(X)] = 1))
             THEN IncBits(X) ELSE X, LAMBDA R :
            IF Len(R) - K + Z > MaxBinaryExponent THEN Infinity(neg)
            ELSE MkNum(neg, NatOfBits(SubSeq(R, 1, Len(R) - K) \o Zeros(Z), <<>>),
                       FracOfBits(SubSeq(R, Len(R) - K + 1, Len(R)), <<>>)))))))

\* the number a small TLA+ integer denotes
Num(n) == MkNum(n < 0, Digits(IF n < 0 THEN -n ELSE n), <<>>)

\* the order of two fractions given by their digits: -1, 0 or 1
CmpFrac(f, g) ==
    LET at(fs, i) == IF i <= Len(fs) THEN fs[i] ELSE 0
        n == IF Len(f) >= Len(g) THEN Len(f) ELSE Len(g)
        diff == {i \in 1..n : at(f, i) # at(g, i)}
    IN  IF diff = {} THEN 0
        ELSE LET i == CHOOSE j \in diff : \A h \in diff : j <= h
             IN  IF at(f, i) < at(g, i) THEN -1 ELSE 1

\* the order of two finite numbers: -1, 0 or 1
CmpNum(x, y) ==
    IF x.neg # y.neg THEN (IF x.neg THEN -1 ELSE 1)
    ELSE LET c == IF CmpNat(x.int, y.int) # 0 THEN CmpNat(x.int, y.int)
                  ELSE CmpFrac(x.frac, y.frac)
         IN  IF x.neg THEN -c ELSE c

\* x < y on numbers: false when either is NaN
LessThan(x, y) ==
    CASE x.k = "nan" \/ y.k = "nan" -> FALSE
      [] x.k = "inf" -> x.neg /\ ~(y.k = "inf" /\ y.neg)
      [] y.k = "inf" -> ~y.neg
      [] OTHER -> CmpNum(x, y) < 0

\* x == 0
IsZero(x) == x = Zero

\* the value 0.digs * 10^point as integer and fraction digits
FromSci(digs, point) ==
    IF point <= 0 THEN [int |-> <<>>, frac |-> Zeros(-point) \o digs]
    ELSE IF point >= Len(digs)
         THEN [int |-> digs \o Zeros(point - Len(digs)), frac |-> <<>>]
         ELSE [int |-> SubSeq(digs, 1, point),
               frac |-> SubSeq(digs, point + 1, Len(digs))]

\* the significant digits of a finite non-zero number and the place of its
\* decimal point among them: the value is 0.digs * 10^point
SciOf(x) ==
    IF x.int # <<>>
    THEN [digs |-> StripTrail0(x.int \o x.frac), point |-> Len(x.int)]
    ELSE [digs |-> Strip0(x.frac), point |-> Len(Strip0(x.frac)) - Len(x.frac)]

\* a decimal of up to 15 digits is the only one of so few digits whose
\* nearest double is the one nearest to it
ExactDigits == 15

\* the k-digit decimals either side of x: the one of the two whose nearest
\* double is x, the nearer to x when both are; none when neither is
NearestDigits(x, sci, k) ==
    With(SubSeq(sci.digs, 1, k), LAMBDA lo :
    With(IncNat(lo), LAMBDA hi0 :
    LET hiPoint == IF Len(hi0) > k THEN sci.point + 1 ELSE sci.point
        hi == StripTrail0(hi0)
        rest == SubSeq(sci.digs, k + 1, Len(sci.digs))
        \* the order of 0.rest and 1/2
        half == IF rest[1] # 5 THEN (IF rest[1] < 5 THEN -1 ELSE 1)
                ELSE IF Len(rest) > 1 THEN 1 ELSE 0
    IN  With([i \in 1..2 |->
                 LET v == IF i = 1 THEN FromSci(lo, sci.point)
                          ELSE FromSci(hi, hiPoint)
                 IN  toDouble(x.neg, v.int, v.frac) = x], LAMBDA ok :
            IF ok[1] /\ (~ok[2] \/ half < 0 \/ (half = 0 /\ lo[k] % 2 = 0))
            THEN [found |-> TRUE, digs |-> StripTrail0(lo), point |-> sci.point]
            ELSE [found |-> ok[2], digs |-> hi, point |-> hiPoint])))

\* the lengths tried together when looking for the shortest digits
Stride == 4

RECURSIVE ShortestDigits(_, _, _)
\* the fewest digits, k or more, that denote a decimal whose nearest double
\* is x, and the nearest to x among those of that length
ShortestDigits(x, sci, k) ==
    IF k >= Len(sci.digs) THEN sci
    ELSE With({n \in k..(k + Stride - 1) :
                 n < Len(sci.digs) /\ NearestDigits(x, sci, n).found}, LAMBDA found :
             IF found = {} THEN ShortestDigits(x, sci, k + Stride)
             ELSE LET near == NearestDigits(x, sci, CHOOSE n \in found :
                                                        \A m \in found : n <= m)
                  IN  [digs |-> near.digs, point |-> near.point])

\* String(number), Number::toString
numberToString(x) ==
    CASE x.k = "nan" -> <<"N", "a", "N">>
      [] x.k = "inf" -> (IF x.neg THEN <<"-">> ELSE <<>>)
                        \o <<"I", "n", "f", "i", "n", "i", "t", "y">>
      [] x = Zero -> <<"0">>
      [] OTHER ->
           With(SciOf(x), LAMBDA sci :
           With(ShortestDigits(x, sci, IF Len(sci.digs) <= ExactDigits
                                       THEN Len(sci.digs) ELSE 1), LAMBDA s :
           LET k == Len(s.digs)
               n == s.point
               digs == ToChars(s.digs)
           IN  (IF x.neg THEN <<"-">> ELSE <<>>)
               \o (IF k <= n /\ n <= 21 THEN digs \o ToChars(Zeros(n - k))
                   ELSE IF 0 < n /\ n <= 21
                        THEN SubSeq(digs, 1, n) \o <<".">> \o SubSeq(digs, n + 1, k)
                   ELSE IF -6 < n /\ n <= 0
                        THEN <<"0", ".">> \o ToChars(Zeros(-n)) \o digs
                   ELSE (IF k = 1 THEN digs
                         ELSE <<digs[1], ".">> \o SubSeq(digs, 2, k))
                        \o <<"e", IF n < 1 THEN "-" ELSE "+">>
                        \o ToChars(Digits(IF n < 1 THEN 1 - n ELSE n - 1)))))

\* Number.prototype.toFixed(digits): the decimal of that many places nearest
\* to x, the larger of two equally near; String(x) from 10^21 on
toFixed(x, digits) ==
    IF x.k # "num" \/ Len(x.int) > 21 THEN numberToString(x)
    ELSE With(x.int \o SubSeq(x.frac \o Zeros(digits), 1, digits), LAMBDA all :
         With(IF Len(x.frac) > digits /\ x.frac[digits + 1] >= 5
              THEN IncNat(all) ELSE all, LAMBDA n0 :
         LET n == Zeros(digits + 1 - Len(n0)) \o n0
         IN  (IF x.neg THEN <<"-">> ELSE <<>>)
             \o ToChars(SubSeq(n, 1, Len(n) - digits))
             \o (IF digits = 0 THEN <<>> ELSE <<".">>)
             \o ToChars(SubSeq(n, Len(n) - digits + 1, Len(n)))))

RECURSIVE SkipWhiteSpace(_)
SkipWhiteSpace(chars) ==
    IF chars # <<>> /\ Head(chars) \in WhiteSpaceChars
    THEN SkipWhiteSpace(Tail(chars)) ELSE chars

RECURSIVE LeadingIn(_, _)
\* the longest prefix of chars made of members of set
LeadingIn(chars, set) ==
    IF chars = <<>> \/ Head(chars) \notin set THEN <<>>
    ELSE <<Head(chars)>> \o LeadingIn(Tail(chars), set)

LeadingDigits(chars) == LeadingIn(chars, DigitChars)

Drop(chars, n) == SubSeq(chars, n + 1, Len(chars))

StartsWith(chars, prefix) ==
    Len(chars) >= Len(prefix) /\ SubSeq(chars, 1, Len(prefix)) = prefix

\* the sign a numeric string starts with, and what follows it
SignOf(chars) ==
    IF chars # <<>> /\ Head(chars) \in {"+", "-"}
    THEN [neg |-> Head(chars) = "-", rest |-> Tail(chars)]
    ELSE [neg |-> FALSE, rest |-> chars]

RECURSIVE HexValue(_, _)
HexValue(chars, acc) ==
    IF chars = <<>> THEN acc
    ELSE HexValue(Tail(chars), MulAddNat(acc, 16, HexDigitOf[Head(chars)]))

\* parseInt(string) without a radix: white space, a sign, 0x for radix 16,
\* then the digits of the radix; NaN without any
parseInt(chars) ==
    With(SignOf(SkipWhiteSpace(chars)), LAMBDA s :
    LET hex == StartsWith(s.rest, <<"0", "x">>) \/ StartsWith(s.rest, <<"0", "X">>)
    IN  With(IF hex THEN LeadingIn(Drop(s.rest, 2), HexChars)
             ELSE LeadingDigits(s.rest), LAMBDA ds :
            IF ds = <<>> THEN NaN
            ELSE toDouble(s.neg,
                          IF hex THEN HexValue(ds, <<>>) ELSE ToDigits(ds),
                          <<>>)))

\* the decimal exponents beyond which every decimal is infinite, or zero
MaxDecimalExponent == 310

MinDecimalExponent == -326

\* parseFloat(string): white space, a sign, then Infinity or the longest
\* decimal literal (digits, a fraction, an exponent); NaN without any
parseFloat(chars) ==
    With(SignOf(SkipWhiteSpace(chars)), LAMBDA s :
    With(LeadingDigits(s.rest), LAMBDA int :
    With(IF StartsWith(Drop(s.rest, Len(int)), <<".">>)
         THEN LeadingDigits(Drop(s.rest, Len(int) + 1)) ELSE <<>>, LAMBDA frac :
    LET r1 == Drop(s.rest, Len(int))
        r2 == IF StartsWith(r1, <<".">>) THEN Drop(r1, 1 + Len(frac)) ELSE r1
        es == IF r2 # <<>> /\ Head(r2) \in {"e", "E"}
              THEN SignOf(Tail(r2)) ELSE [neg |-> FALSE, rest |-> <<>>]
        eds == Strip0(ToDigits(LeadingDigits(es.rest)))
        digs == Strip0(ToDigits(int \o frac))
        \* an exponent too long to matter is as good as 9999
        point == Len(digs) - Len(frac)
                 + (IF es.neg THEN -1 ELSE 1)
                   * (IF Len(eds) > 4 THEN 9999 ELSE DigitsValue(eds, 0))
        v == FromSci(digs, point)
    IN  IF StartsWith(s.rest, <<"I", "n", "f", "i", "n", "i", "t", "y">>)
        THEN Infinity(s.neg)
        ELSE IF int = <<>> /\ frac = <<>> THEN NaN
        ELSE IF digs = <<>> THEN Zero
        ELSE IF point > MaxDecimalExponent THEN Infinity(s.neg)
        ELSE IF point < MinDecimalExponent THEN Zero
        ELSE toDouble(s.neg, v.int, v.frac))))
----------------------------------------------------------------------------
(* Dates: the time value of new Date(x), as V8 computes it *)

\* the largest time value of a Date, in milliseconds either side of the epoch
MaxTime == <<8, 6, 4>> \o Zeros(13)

MsPerDay == 86400000

MsPerMinute == 60000

\* TimeClip(ToIntegerOrInfinity(x)): the time value a Date holds for x
timeClip(x) ==
    IF x.k # "num" THEN NaN
    ELSE IF CmpNat(x.int, MaxTime) > 0 \/ (x.int = MaxTime /\ x.frac # <<>>) THEN NaN
    ELSE MkNum(x.neg, x.int, <<>>)

\* the time value of `ms` milliseconds into day number `day` (day 0 is
\* 1970-01-01), ms being any integer
makeDate(day, ms) ==
    LET d == day + (ms \div MsPerDay)
        r == ms % MsPerDay
    IN  timeClip(IF d >= 0 THEN MkNum(FALSE, MulAddNat(Digits(d), MsPerDay, r), <<>>)
                 ELSE MkNum(TRUE, MulAddNat(Digits(-d - 1), MsPerDay, MsPerDay - r), <<>>))

\* the day number of a date of the proleptic Gregorian calendar; a day past
\* the end of the month counts on into the next
daysFromCivil(year, month, day) ==
    LET y == IF month <= 2 THEN year - 1 ELSE year
        era == y \div 400
        yoe == y - era * 400
        doy == (153 * (IF month > 2 THEN month - 3 ELSE month + 9) + 2) \div 5 + day - 1
        doe == yoe * 365 + yoe \div 4 - yoe \div 100 + doy
    IN  era * 146097 + doe - 719468

\* the years MakeDay accepts
MaxYear == 1000000

None == -1

\* the characters below "A" that are no digits: the tokenizer reads any
\* other character as part of a word
BelowA ==
    DigitChars \cup WhiteSpaceChars
    \cup {"!", "\"", "#", "$", "%", "&", "'", "(", ")", "*", "+", ",", "-", ".",
          "/", ":", ";", "<", "=", ">", "?", "@"}

UpperChars == <<"A", "B", "C", "D", "E", "F", "G", "H", "I", "J", "K", "L", "M",
                "N", "O", "P", "Q", "R", "S", "T", "U", "V", "W", "X", "Y", "Z">>

LowerChars == <<"a", "b", "c", "d", "e", "f", "g", "h", "i", "j", "k", "l", "m",
                "n", "o", "p", "q", "r", "s", "t", "u", "v", "w", "x", "y", "z">>

ToLower(c) ==
    IF \E i \in 1..26 : UpperChars[i] = c
    THEN LowerChars[CHOOSE i \in 1..26 : UpperChars[i] = c] ELSE c

\* the words the date parser knows, by their first three letters
KeywordTable ==
    <<[w |-> <<"j", "a", "n">>, type |-> "month", value |-> 1],
      [w |-> <<"f", "e", "b">>, type |-> "month", value |-> 2],
      [w |-> <<"m", "a", "r">>, type |-> "month", value |-> 3],
      [w |-> <<"a", "p", "r">>, type |-> "month", value |-> 4],
      [w |-> <<"m", "a", "y">>, type |-> "month", value |-> 5],
      [w |-> <<"j", "u", "n">>, type |-> "month", value |-> 6],
      [w |-> <<"j", "u", "l">>, type |-> "month", value |-> 7],
      [w |-> <<"a", "u", "g">>, type |-> "month", value |-> 8],
      [w |-> <<"s", "e", "p">>, type |-> "month", value |-> 9],
      [w |-> <<"o", "c", "t">>, type |-> "month", value |-> 10],
      [w |-> <<"n", "o", "v">>, type |-> "month", value |-> 11],
      [w |-> <<"d", "e", "c">>, type |-> "month", value |-> 12],
      [w |-> <<"a", "m">>, type |-> "ampm", value |-> 0],
      [w |-> <<"p", "m">>, type |-> "ampm", value |-> 12],
      [w |-> <<"u", "t">>, type |-> "zone", value |-> 0],
      [w |-> <<"u", "t", "c">>, type |-> "zone", value |-> 0],
      [w |-> <<"z">>, type |-> "zone", value |-> 0],
      [w |-> <<"g", "m", "t">>, type |-> "zone", value |-> 0],
      [w |-> <<"c", "d", "t">>, type |-> "zone", value |-> -5],
      [w |-> <<"c", "s", "t">>, type |-> "zone", value |-> -6],
      [w |-> <<"e", "d", "t">>, type |-> "zone", value |-> -4],
      [w |-> <<"e", "s", "t">>, type |-> "zone", value |-> -5],
      [w |-> <<"m", "d", "t">>, type |-> "zone", value |-> -6],
      [w |-> <<"m", "s", "t">>, type |-> "zone", value |-> -7],
      [w |-> <<"p", "d", "t">>, type |-> "zone", value |-> -7],
      [w |-> <<"p", "s", "t">>, type |-> "zone", value |-> -8],
      [w |-> <<"t">>, type |-> "T", value |-> 0]>>

Token(t, n, len, type) == [t |-> t, n |-> n, len |-> len, type |-> type]

EndOfInput == Token("end", 0, 0, "")

\* the token of a word: a keyword when its first three letters are one (and
\* it is no longer than three letters, unless a month), else a word unknown
WordToken(word) ==
    With(Tuple([i \in 1..(IF Len(word) < 3 THEN Len(word) ELSE 3) |->
                   ToLower(word[i])]), LAMBDA pre :
    With(KeywordTable, LAMBDA table :
    With({i \in 1..Len(table) :
             /\ table[i].w = pre
             /\ Len(word) <= 3 \/ table[i].type = "month"}, LAMBDA hits :
        IF hits = {} THEN Token("word", 0, Len(word), "")
        ELSE With(table[CHOOSE i \in hits : TRUE], LAMBDA e :
                 Token("word", e.value, Len(word), e.type)))))

\* a run of digits as a number token: leading zeros skipped, then the first
\* nine digits are its value; len counts every digit
NumberToken(run) ==
    LET sig == Strip0(ToDigits(run))
    IN  Token("num", DigitsValue(SubSeq(sig, 1, IF Len(sig) < 9 THEN Len(sig) ELSE 9), 0),
              Len(run), "")

RECURSIVE ParenthesesLength(_, _, _)
\* how many characters a parenthesized text takes, from its "("
ParenthesesLength(chars, i, balance) ==
    IF i > Len(chars) THEN Len(chars)
    ELSE LET b == IF chars[i] = ")" THEN balance - 1
                  ELSE IF chars[i] = "(" THEN balance + 1 ELSE balance
         IN  IF b > 0 THEN ParenthesesLength(chars, i + 1, b) ELSE i

RECURSIVE Tokens(_)
\* the tokens of a date string
Tokens(chars) ==
    IF chars = <<>> THEN <<>>
    ELSE LET c == Head(chars)
         IN  CASE c \in DigitChars ->
                    LET run == LeadingIn(chars, DigitChars)
                    IN  <<NumberToken(run)>> \o Tokens(Drop(chars, Len(run)))
               [] c \in {":", "-", "+", ".", ")"} ->
                    <<Token(c, 0, 1, "")>> \o Tokens(Tail(chars))
               [] c \notin BelowA ->
                    LET n == IF \E i \in 1..Len(chars) : chars[i] \in BelowA
                             THEN (CHOOSE i \in 1..Len(chars) :
                                      /\ chars[i] \in BelowA
                                      /\ \A j \in 1..(i - 1) : chars[j] \notin BelowA) - 1
                             ELSE Len(chars)
                    IN  <<WordToken(SubSeq(chars, 1, n))>> \o Tokens(Drop(chars, n))
               [] c \in WhiteSpaceChars ->
                    LET run == LeadingIn(chars, WhiteSpaceChars)
                    IN  <<Token("ws", 0, Len(run), "")>> \o Tokens(Drop(chars, Len(run)))
               [] c = "(" ->
                    <<Token("unknown", 0, 1, "")>>
                    \o Tokens(Drop(chars, ParenthesesLength(chars, 1, 0)))
               [] OTHER -> <<Token("unknown", 0, 1, "")>> \o Tokens(Tail(chars))

Peek(toks) == IF toks = <<>> THEN EndOfInput ELSE Head(toks)

Rest(toks) == IF toks = <<>> THEN <<>> ELSE Tail(toks)

IsSymbol(tok, c) == tok.t = c

IsSign(tok) == tok.t \in {"+", "-"}

IsFixedNumber(tok, len) == tok.t = "num" /\ tok.len = len

IsKeywordZ(tok) == tok.t = "word" /\ tok.type = "zone" /\ tok.len = 1

\* the tokens after a symbol c they start with, else the tokens
SkipSymbol(toks, c) == IF IsSymbol(Peek(toks), c) THEN Tail(toks) ELSE toks

Between(x, lo, hi) == lo <= x /\ x <= hi

IsMonth(x) == Between(x, 1, 12)

IsDay(x) == Between(x, 1, 31)

IsHour(x) == Between(x, 0, 23)

IsHour12(x) == Between(x, 0, 12)

IsMinute(x) == Between(x, 0, 59)

IsSecond(x) == Between(x, 0, 59)

IsMillisecond(x) == Between(x, 0, 999)

\* the milliseconds a number token after the decimal point denotes
ReadMilliseconds(tok) ==
    IF tok.len = 1 THEN tok.n * 100
    ELSE IF tok.len = 2 THEN tok.n * 10
    ELSE IF tok.len > 3
         THEN tok.n \div (10 ^ ((IF tok.len > 9 THEN 9 ELSE tok.len) - 3))
         ELSE tok.n

\* what the parser has composed so far: the day's numbers and named month,
\* the time's numbers and am/pm offset, the zone's sign, hour and minute
NoDate ==
    [day |-> <<>>, month |-> None, iso |-> FALSE,
     time |-> <<>>, hourOffset |-> None,
     sign |-> 0, hour |-> None, minute |-> None,
     read |-> FALSE, ok |-> TRUE]

Failed == [NoDate EXCEPT !.ok = FALSE]

SetZone(st, hours) ==
    [st EXCEPT !.sign = IF hours < 0 THEN -1 ELSE 1,
               !.hour = IF hours < 0 THEN -hours ELSE hours,
               !.minute = 0]

TimeIsExpecting(st, n) ==
    \/ Len(st.time) = 1 /\ IsMinute(n)
    \/ Len(st.time) = 2 /\ IsSecond(n)
    \/ Len(st.time) = 3 /\ IsMillisecond(n)

\* the time with n as its last number and zeros after it
AddFinal(st, n) == [st EXCEPT !.time = SubSeq(@ \o <<n, 0, 0, 0>>, 1, 4)]

\* the optional zone of an ES5 date-time string: Z, +hh:mm or +hhmm
ES5Zone(toks, st) ==
    With(Peek(toks), LAMBDA tok :
    With(Rest(toks), LAMBDA t1 :
    With(Peek(t1), LAMBDA h :
    With(Peek(Rest(Rest(t1))), LAMBDA m :
    With(IF tok.t = "+" THEN 1 ELSE -1, LAMBDA sign :
        IF IsKeywordZ(tok) THEN [toks |-> t1, st |-> SetZone(st, 0)]
        ELSE IF ~IsSign(tok) THEN [toks |-> toks, st |-> st]
        ELSE IF IsFixedNumber(h, 4)
        THEN IF IsHour(h.n \div 100) /\ IsMinute(h.n % 100)
             THEN [toks |-> Tail(t1),
                   st |-> [st EXCEPT !.sign = sign, !.hour = h.n \div 100,
                                     !.minute = h.n % 100]]
             ELSE [toks |-> <<>>, st |-> Failed]
        ELSE IF /\ IsFixedNumber(h, 2) /\ IsHour(h.n)
                /\ IsSymbol(Peek(Rest(t1)), ":")
                /\ IsFixedNumber(m, 2) /\ IsMinute(m.n)
             THEN [toks |-> Tail(Tail(Tail(t1))),
                   st |-> [st EXCEPT !.sign = sign, !.hour = h.n, !.minute = m.n]]
             ELSE [toks |-> <<>>, st |-> Failed])))))

\* the time of an ES5 date-time string after its T: HH:mm[:ss[.sss]][zone],
\* and nothing after it
ES5Time(toks, st) ==
    With(Peek(toks), LAMBDA h :
    With(Rest(toks), LAMBDA t1 :
    With(Peek(Rest(t1)), LAMBDA m :
    With(Rest(Rest(t1)), LAMBDA t2 :
    With(IsSymbol(Peek(t2), ":"), LAMBDA hasSec :
    With(Peek(Rest(t2)), LAMBDA s :
    With(IF hasSec THEN Rest(Rest(t2)) ELSE t2, LAMBDA t3 :
    With(hasSec /\ IsSymbol(Peek(t3), "."), LAMBDA hasMs :
    With(Peek(Rest(t3)), LAMBDA ms :
    With(ES5Zone(IF hasMs THEN Rest(Rest(t3)) ELSE t3,
                 [st EXCEPT !.time =
                     <<h.n, m.n>>
                     \o (IF hasSec THEN <<s.n>> ELSE <<>>)
                     \o (IF hasMs THEN <<ReadMilliseconds(ms)>> ELSE <<>>)]),
         LAMBDA z :
        IF \/ ~(IsFixedNumber(h, 2) /\ Between(h.n, 0, 24))
           \/ ~IsSymbol(Peek(t1), ":")
           \/ ~(IsFixedNumber(m, 2) /\ IsMinute(m.n) /\ (h.n = 24 => m.n = 0))
           \/ hasSec /\ ~(IsFixedNumber(s, 2) /\ IsSecond(s.n) /\ (h.n = 24 => s.n = 0))
           \/ hasMs /\ ~(ms.t = "num" /\ (h.n = 24 => ms.n = 0))
        THEN Failed
        ELSE IF ~z.st.ok \/ z.toks # <<>> THEN Failed
        ELSE z.st))))))))))

\* The ES5 date-time string format, tried first: [+-]yyyyyy or yyyy, then
\* -MM and -DD, then T and a time. The answer is the date composed
\* (legacy FALSE), or what was read of it and the tokens left to the
\* legacy parser.
ParseES5DateTime(toks) ==
    With(IsSign(Peek(toks)), LAMBDA signed :
    With(IF signed THEN Peek(Rest(toks)) ELSE Peek(toks), LAMBDA y :
    With(IF signed THEN IsFixedNumber(y, 6) ELSE IsFixedNumber(y, 4), LAMBDA hasYear :
    With(IF signed /\ Peek(toks).t = "-" THEN -y.n ELSE y.n, LAMBDA year :
    With(IF signed THEN Rest(Rest(toks)) ELSE Rest(toks), LAMBDA t1 :
    With(IsSymbol(Peek(t1), "-"), LAMBDA hasM :
    With(Peek(Rest(t1)), LAMBDA mo :
    With(IF hasM THEN Rest(Rest(t1)) ELSE t1, LAMBDA t2 :
    With(hasM /\ IsSymbol(Peek(t2), "-"), LAMBDA hasD :
    With(Peek(Rest(t2)), LAMBDA d :
    With(IF hasD THEN Rest(Rest(t2)) ELSE t2, LAMBDA t3 :
    With([NoDate EXCEPT !.day = <<year>> \o (IF hasM THEN <<mo.n>> ELSE <<>>)
                                        \o (IF hasD THEN <<d.n>> ELSE <<>>)],
         LAMBDA st :
    LET legacy(st0, rest) == [legacy |-> TRUE, st |-> st0, toks |-> rest]
    IN  IF ~hasYear THEN legacy(NoDate, toks)
        ELSE IF signed /\ Peek(toks).t = "-" /\ y.n = 0
             THEN legacy(NoDate, t1)
        ELSE IF hasM /\ ~(IsFixedNumber(mo, 2) /\ IsMonth(mo.n))
             THEN legacy([NoDate EXCEPT !.day = <<year>>], Rest(t1))
        ELSE IF hasD /\ ~(IsFixedNumber(d, 2) /\ IsDay(d.n))
             THEN legacy([NoDate EXCEPT !.day = <<year, mo.n>>], Rest(t2))
        ELSE IF Peek(t3).t = "word" /\ Peek(t3).type = "T"
             THEN [legacy |-> FALSE,
                   st |-> [ES5Time(Tail(t3), st) EXCEPT !.iso = TRUE],
                   toks |-> <<>>]
        ELSE IF t3 # <<>> THEN legacy(st, t3)
        ELSE [legacy |-> FALSE, st |-> [SetZone(st, 0) EXCEPT !.iso = TRUE],
              toks |-> <<>>]))))))))))))

RECURSIVE LegacyDate(_, _)
\* the legacy date parser: numbers are times (before ":") or parts of the
\* day, words are month names, am/pm and time zones; other words and signs
\* are ignored before the first number and an error after it
LegacyDate(toks, st) ==
    IF toks = <<>> \/ ~st.ok THEN st
    ELSE LET tok == Head(toks)
             t1 == Tail(toks)
             n == tok.n
         IN  IF tok.t = "num" THEN
                 LET s == [st EXCEPT !.read = TRUE]
                 IN  IF IsSymbol(Peek(t1), ":") THEN
                         IF IsSymbol(Peek(Tail(t1)), ":")
                         THEN IF s.time # <<>> THEN Failed
                              ELSE LegacyDate(Tail(Tail(t1)), [s EXCEPT !.time = <<n, 0>>])
                         ELSE IF Len(s.time) >= 4 THEN Failed
                              ELSE LegacyDate(SkipSymbol(Tail(t1), "."),
                                              [s EXCEPT !.time = Append(@, n)])
                     ELSE LET t2 == SkipSymbol(t1, ".")
                          IN  IF t2 # t1 /\ TimeIsExpecting(s, n) THEN
                                  IF Peek(t2).t # "num" THEN Failed
                                  ELSE LegacyDate(Tail(t2),
                                           AddFinal([s EXCEPT !.time = Append(@, n)],
                                                    ReadMilliseconds(Peek(t2))))
                              ELSE IF s.hour # None /\ s.minute = None /\ IsMinute(n)
                                   THEN LegacyDate(t2, [s EXCEPT !.minute = n])
                              ELSE IF TimeIsExpecting(s, n) THEN
                                  IF Peek(t2).t \in {"end", "ws", "+", "-"}
                                     \/ IsKeywordZ(Peek(t2))
                                  THEN LegacyDate(t2, AddFinal(s, n))
                                  ELSE Failed
                              ELSE IF Len(s.day) >= 3 THEN Failed
                              ELSE LegacyDate(SkipSymbol(t2, "-"),
                                              [s EXCEPT !.day = Append(@, n)])
             ELSE IF tok.t = "word" THEN
                 IF tok.type = "ampm" /\ st.time # <<>>
                 THEN LegacyDate(t1, [st EXCEPT !.hourOffset = n])
                 ELSE IF tok.type = "month"
                 THEN LegacyDate(SkipSymbol(t1, "-"), [st EXCEPT !.month = n])
                 ELSE IF tok.type = "zone" /\ st.read
                 THEN LegacyDate(t1, SetZone(st, n))
                 ELSE IF st.read \/ Peek(t1).t = "num" THEN Failed
                 ELSE LegacyDate(t1, st)
             ELSE IF IsSign(tok) /\ ((st.hour = 0 /\ st.minute = 0) \/ st.time # <<>>) THEN
                 LET num == Peek(t1).t = "num"
                     len == IF num THEN Peek(t1).len ELSE 0
                     v == IF num THEN Peek(t1).n ELSE 0
                     t2 == IF num THEN Tail(t1) ELSE t1
                     s == [st EXCEPT !.sign = IF tok.t = "+" THEN 1 ELSE -1,
                                     !.read = TRUE]
                 IN  IF IsSymbol(Peek(t2), ":")
                     THEN LegacyDate(t2, [s EXCEPT !.hour = v, !.minute = None])
                     ELSE IF len \in {1, 2}
                     THEN LegacyDate(t2, [s EXCEPT !.hour = v, !.minute = 0])
                     ELSE IF len \in {3, 4}
                     THEN LegacyDate(t2, [s EXCEPT !.hour = v \div 100,
                                                   !.minute = v % 100])
                     ELSE Failed
             ELSE IF (IsSign(tok) \/ IsSymbol(tok, ")")) /\ st.read THEN Failed
             ELSE LegacyDate(t1, st)

\* the year, month and day the numbers of the day and a named month give
ComposeDay(st) ==
    With(SubSeq(st.day \o <<1, 1, 1>>, 1, 3), LAMBDA comp :
    With(IF st.month = None
         THEN IF st.iso \/ ~IsDay(comp[1])
              THEN [year |-> comp[1], month |-> comp[2], day |-> comp[3]]
              ELSE [year |-> comp[3], month |-> comp[1], day |-> comp[2]]
         ELSE IF ~IsDay(comp[1])
              THEN [year |-> comp[1], month |-> st.month, day |-> comp[2]]
              ELSE [year |-> comp[2], month |-> st.month, day |-> comp[1]],
         LAMBDA ymd :
        [ok |-> st.day # <<>> /\ IsMonth(ymd.month) /\ IsDay(ymd.day),
         year |-> IF st.iso THEN ymd.year
                  ELSE IF Between(ymd.year, 0, 49) THEN ymd.year + 2000
                  ELSE IF Between(ymd.year, 50, 99) THEN ymd.year + 1900
                  ELSE ymd.year,
         month |-> ymd.month, day |-> ymd.day]))

\* the hour, minute, second and millisecond the numbers of the time give
ComposeTime(st) ==
    With(SubSeq(st.time \o <<0, 0, 0, 0>>, 1, 4), LAMBDA comp :
    With(IF st.hourOffset # None THEN (comp[1] % 12) + st.hourOffset
         ELSE comp[1], LAMBDA hour :
        [ok |-> /\ st.hourOffset # None => IsHour12(comp[1])
                /\ \/ /\ IsHour(hour) /\ IsMinute(comp[2])
                      /\ IsSecond(comp[3]) /\ IsMillisecond(comp[4])
                   \/ hour = 24 /\ comp[2] = 0 /\ comp[3] = 0 /\ comp[4] = 0,
         hour |-> hour, minute |-> comp[2], second |-> comp[3], ms |-> comp[4]]))

\* The host's time zone is named by the minutes east of UTC it keeps today:
\* 0 is UTC, 330 is Asia/Kolkata. A zone has kept other offsets in the past:
\* each change is given by the UTC day (day 0 is 1970-01-01) and millisecond
\* of the day it happened at, and the seconds east of UTC kept before it.
\* Asia/Kolkata kept local mean time until 1854, Howrah and Madras time until
\* 1906, and an hour more than today in 1941-42 and 1942-45
ZoneChanges(utcOffset) ==
    IF utcOffset = 330
    THEN <<[day |-> -42191, ms |-> 65192000, before |-> 21208],
           [day |-> -36525, ms |-> 65200000, before |-> 21200],
           [day |-> -23377, ms |-> 67130000, before |-> 19270],
           [day |-> -10320, ms |-> 66600000, before |-> 19800],
           [day |-> -10094, ms |-> 63000000, before |-> 23400],
           [day |-> -9985, ms |-> 66600000, before |-> 19800],
           [day |-> -8845, ms |-> 63000000, before |-> 23400]>>
    ELSE <<>>

\* a time as a day and a millisecond of that day
DayTime(day, ms) == [day |-> day + (ms \div MsPerDay), ms |-> ms % MsPerDay]

IsBefore(a, b) == a.day < b.day \/ (a.day = b.day /\ a.ms < b.ms)

\* the seconds east of UTC the host's zone keeps at a time: at a UTC time the
\* offset in force then; at a local time the same, a local time that a change
\* skipped or repeated being read with the offset kept before the change
secondsEast(utcOffset, at, isLocal) ==
    LET changes == ZoneChanges(utcOffset)
        after(i) == IF i < Len(changes) THEN changes[i + 1].before ELSE utcOffset * 60
        limit(i) ==
            IF ~isLocal THEN DayTime(changes[i].day, changes[i].ms)
            ELSE DayTime(changes[i].day,
                         changes[i].ms
                         + 1000 * (IF changes[i].before >= after(i)
                                   THEN changes[i].before ELSE after(i)))
        ahead == {i \in 1..Len(changes) : IsBefore(at, limit(i))}
    IN  IF ahead = {} THEN utcOffset * 60
        ELSE changes[CHOOSE i \in ahead : \A j \in ahead : i <= j].before

\* Date.parse(string), on a host in the zone utcOffset: a time without a
\* zone is local time, a date alone in the ES5 format is UTC
dateParse(chars, utcOffset) ==
    With(ParseES5DateTime(Tokens(chars)), LAMBDA e :
    With(IF e.legacy
         THEN LegacyDate(e.toks, [e.st EXCEPT !.read = e.st.day # <<>>])
         ELSE e.st, LAMBDA st :
    With(ComposeDay(st), LAMBDA day :
    With(ComposeTime(st), LAMBDA time :
        IF ~st.ok \/ ~day.ok \/ ~time.ok THEN NaN
        ELSE IF ~Between(day.year, -MaxYear, MaxYear) THEN NaN
        ELSE LET days == daysFromCivil(day.year, day.month, day.day)
                 ms == ((time.hour * 60 + time.minute) * 60 + time.second) * 1000
                       + time.ms
                 zone == IF st.sign = 0
                         THEN secondsEast(utcOffset, DayTime(days, ms), TRUE)
                         ELSE st.sign * 60
                              * ((IF st.hour = None THEN 0 ELSE st.hour) * 60
                                 + (IF st.minute = None THEN 0 ELSE st.minute))
             IN  makeDate(days, ms - zone * 1000)))))
----------------------------------------------------------------------------
(* Props, theme and datasets *)

Str(chars) == [k |-> "str", s |-> chars]

List(items) == [k |-> "list", items |-> items]

\* defaultProps (BarChart.defaultProps = defaultProps)
defaultTimeLabelStep == 10

defaultProps ==
    [timeLabelStep |-> Num(defaultTimeLabelStep),
     plugins |-> List(<<"ZebraStripes">>)]

\* a prop left undefined by the caller takes its default
withDefaults(p) ==
    [p EXCEPT !.timeLabelStep = IF @.k = "undef" THEN defaultProps.timeLabelStep ELSE @,
              !.plugins = IF @.k = "undef" THEN defaultProps.plugins ELSE @]

\* a deep merge of b over a in place of the spread
spreadDeep(a, b) == baseMerge(a, b)

\* { ...a, ...b } of two plain objects: b's own properties win, whole
spread(a, b) ==
    Obj([key \in DOMAIN a.f \cup DOMAIN b.f |->
           IF key \in DOMAIN b.f THEN b.f[key] ELSE a.f[key]])

\* the literal the map callback spreads each dataset over
datasetDefaults ==
    Obj([type |-> ChartKindBAR,
         borderWidth |-> Obj([top |-> Leaf("3")]),
         barPercentage |-> Leaf("1"),
         categoryPercentage |-> Leaf("1")])

\* a filter that keeps every dataset
hasPointsAlways(set) == TRUE

\* set => set.data.length
hasPoints(set) == ArrayLength(set.f.data) # 0

\* datasets.filter(...).map(...)
normalize(datasets) ==
    LET kept == SelectSeq(datasets, hasPoints)
    IN  [i \in 1..Len(kept) |-> spread(datasetDefaults, kept[i])]

\* chartData = { ...data, datasets: ... }
chartDataOf(data) == [data EXCEPT !.datasets = normalize(data.datasets)]

\* the colors kept from the previous pass, when there was one
readThemeStale ==
    IF result.kind # "none" THEN result.locals.colors ELSE themeStore.activeTheme.colors

\* const { textColorPrimary, ... } = themeStore.activeTheme.colors
readTheme == themeStore.activeTheme.colors

\* if (!chartData.datasets.length), asked of the caller's datasets instead
noDatasetsInInput(data, chartData) == Len(data.datasets) = 0

\* if (!chartData.datasets.length)
noDatasets(data, chartData) == Len(chartData.datasets) = 0

\* the props the destructuring of line 25 names; the rest are ...settings
NamedProps == {"name", "data", "className", "timeLabelStep", "plugins", "options"}

\* const { name, data, ..., ...settings } = props
settingsOf(p) == [key \in DOMAIN p \ NamedProps |-> p[key]]

\* cssNames(...) of ../../utils: the class attribute made of its arguments
cssNames(base, className) == [k |-> "cssNames", base |-> base, className |-> className]

\* the value BarChart returns for props p0: the element's component (kind) and
\* its props, a later attribute of the JSX replacing an earlier one of the
\* same name; locals keeps what the pass computed whatever it returns, and
\* what the callbacks bound into options close over
BarChart(p0) ==
    LET p == withDefaults(p0)
        colors == readTheme
        chartData == chartDataOf(p.data)
        options == merge(barOptions(colors), p.options)
        locals == [chartData |-> chartData,
                   options |-> options,
                   timeLabelStep |-> p.timeLabelStep,
                   colors |-> colors]
    IN  IF noDatasets(p.data, chartData)
        THEN [kind |-> "NoMetrics", locals |-> locals]
        ELSE [kind |-> "Chart",
              locals |-> locals,
              props |-> settingsOf(p)
                        @@ [className |-> cssNames("BarChart flex box grow column",
                                                   p.className),
                            type |-> ChartKindBAR,
                            data |-> chartData,
                            options |-> options,
                            plugins |-> p.plugins]]

\* one render pass: BarChart runs to its return and leaves its effect to be
\* run; React runs the effect of a pass before it starts the next one
Render(p) ==
    /\ effect.k = "none"
    /\ props' = p
    /\ result' = BarChart(p)
    /\ effect' = [k |-> "pending", name |-> p.name]
    /\ seenTheme' = themeStore.activeTheme.colors
    /\ UNCHANGED <<themeStore, savedName, clock, tick, tooltip, merged>>

\* the effect of the last pass: savedName.current = props.name
RunEffect ==
    /\ effect.k = "pending"
    /\ savedName' = effect.name
    /\ effect' = [k |-> "none"]
    /\ UNCHANGED <<themeStore, props, result, seenTheme, clock, tick, tooltip, merged>>

\* the theme store changes the active theme (outside this component)
SetTheme(colors) ==
    /\ themeStore.activeTheme.colors # colors
    /\ themeStore' = [activeTheme |-> [colors |-> colors]]
    /\ UNCHANGED <<props, result, savedName, effect, seenTheme, clock, tick, tooltip, merged>>

----------------------------------------------------------------------------
(* The callbacks *)

\* String(value)
toStringValue(value) ==
    IF value.k = "str" THEN value.s ELSE numberToString(value)

\* moment(ms).format("HH:mm") on a host in the zone utcOffset: the hour and
\* minute of the local time, at the offset the zone keeps at ms
momentFormatHHmm(ms, utcOffset) ==
    LET t == timeClip(ms)
    IN  IF t.k # "num" THEN <<"I", "n", "v", "a", "l", "i", "d", " ", "d", "a", "t", "e">>
        ELSE LET d == DivModNat(t.int, MsPerDay, <<>>, 0)
                 days == DigitsValue(d.q, 0)
                 at == IF t.neg THEN DayTime(-days, -d.r) ELSE DayTime(days, d.r)
                 local == at.ms + 1000 * secondsEast(utcOffset, at, FALSE)
                 minute == ((local \div MsPerMinute) + 1440) % 1440
             IN  ToChars(PadDigits(minute \div 60, 2)) \o <<":">>
                 \o ToChars(PadDigits(minute % 60, 2))

offset == <<" ", " ", " ", " ", " ">>

\* the odd number m, in binary digits, of a finite non-zero x = m * 2^e
OddPart(x) ==
    Strip0(StripTrail0(NatBits(x.int) \o FracBits(x.frac, Len(x.frac), <<>>).bits))

\* index % timeLabelStep == 0, for an index 0, 1, 2, ...: the remainder is
\* NaN for a step of 0 or NaN, and the index itself for a step beyond it
isStepMultiple(index, timeLabelStep) ==
    CASE timeLabelStep.k = "nan" -> FALSE
      [] timeLabelStep.k = "inf" -> index = 0
      [] IsZero(timeLabelStep) -> FALSE
      [] timeLabelStep.frac = <<>> ->
           IF Len(timeLabelStep.int) > 9 THEN index = 0
           ELSE index % DigitsValue(timeLabelStep.int, 0) = 0
      [] OTHER ->
           LET m == OddPart(timeLabelStep)
           IN  IF Len(m) > 30 THEN index = 0 ELSE index % BitsValue(m, 0) = 0

\* the step rule tried before the two edge rules
formatTimeLabelsStepFirst(timestamp, index, timeLabelStep, utcOffset) ==
    LET label == momentFormatHHmm(parseInt(timestamp), utcOffset)
    IN  IF isStepMultiple(index, timeLabelStep) THEN label
        ELSE IF index = 0 THEN offset \o label
        ELSE IF index = 60 THEN label \o offset
        ELSE <<>>

formatTimeLabels(timestamp, index, timeLabelStep, utcOffset) ==
    LET label == momentFormatHHmm(parseInt(timestamp), utcOffset)
    IN  IF index = 0 THEN offset \o label
        ELSE IF index = 60 THEN label \o offset
        ELSE IF isStepMultiple(index, timeLabelStep) THEN label ELSE <<>>

\* bytesToUnits(bytes, precision) of ../../utils: the display string the
\* byte-unit scaler gives for the value; "default" when no precision is passed
bytesToUnits(value, precision) ==
    [k |-> "bytesToUnits", value |-> value, precision |-> precision]

\* memoryOptions.scales.yAxes[0].ticks.callback, with value <= 1 for value < 1
memoryTickCallbackInclusive(value) ==
    LET v == parseFloat(toStringValue(value))
    IN  IF v.k = "nan" \/ IsZero(v) THEN Zero
        ELSE IF LessThan(v, Num(1)) \/ v = Num(1) THEN Str(toFixed(v, 3))
        ELSE bytesToUnits(v, "default")

\* memoryOptions.scales.yAxes[0].ticks.callback
memoryTickCallback(value) ==
    LET v == parseFloat(toStringValue(value))
    IN  IF v.k = "nan" \/ IsZero(v) THEN Zero
        ELSE IF LessThan(v, Num(1)) THEN Str(toFixed(v, 3))
        ELSE bytesToUnits(v, "default")

\* cpuOptions.scales.yAxes[0].ticks.callback, with <= for < at the band edges
cpuTickCallbackInclusive(value) ==
    IF IsZero(value) THEN Zero
    ELSE IF LessThan(value, Num(10)) \/ value = Num(10) THEN Str(toFixed(value, 3))
    ELSE IF LessThan(value, Num(100)) \/ value = Num(100) THEN Str(toFixed(value, 2))
    ELSE Str(toFixed(value, 1))

\* cpuOptions.scales.yAxes[0].ticks.callback
cpuTickCallback(value) ==
    IF IsZero(value) THEN Zero
    ELSE IF LessThan(value, Num(10)) THEN Str(toFixed(value, 3))
    ELSE IF LessThan(value, Num(100)) THEN Str(toFixed(value, 2))
    ELSE Str(toFixed(value, 1))

\* new Date(xLabel).getTime() on a host utcOffset minutes east of UTC: a
\* number is clipped to a time value, a string is parsed as a date
dateGetTime(xLabel, utcOffset) ==
    IF xLabel.k = "str" THEN dateParse(xLabel.s, utcOffset) ELSE timeClip(xLabel)

\* `${xLabel}`
templateString(xLabel) == toStringValue(xLabel)

\* tooltips.callbacks.title with >= for >
tooltipTitleInclusive(xLabel, now, utcOffset) ==
    LET t == dateGetTime(xLabel, utcOffset)
    IN  IF LessThan(now, t) \/ t = now THEN <<>> ELSE templateString(xLabel)

\* tooltips.callbacks.title, now being new Date().getTime() at the call
tooltipTitle(xLabel, now, utcOffset) ==
    LET t == dateGetTime(xLabel, utcOffset)
    IN  IF LessThan(now, t) THEN <<>> ELSE templateString(xLabel)

----------------------------------------------------------------------------
(* The rendering engine's calls into the configuration, and the clock *)

XTickCallbackPath == <<"scales", "xAxes", "0", "ticks", "callback">>

YTickCallbackPath == <<"scales", "yAxes", "0", "ticks", "callback">>

TitleCallbackPath == <<"tooltips", "callbacks", "title">>

\* the engine asks the time axis' tick callback for the label of a tick, of
\* any index, in any order
CallFormatTimeLabels(timestamp, index) ==
    /\ result.kind = "Chart"
    /\ IsFunction(Get(result.props.options, XTickCallbackPath), "formatTimeLabels")
    /\ tick' = [fn |-> "formatTimeLabels",
                timestamp |-> timestamp,
                index |-> index,
                out |-> formatTimeLabels(timestamp, index,
                                         result.locals.timeLabelStep,
                                         clock.utcOffset)]
    /\ UNCHANGED <<themeStore, props, result, savedName, effect, seenTheme, clock,
                   tooltip, merged>>

\* the engine asks the value axis' tick callback of memoryOptions
CallMemoryTick(value) ==
    /\ result.kind = "Chart"
    /\ IsFunction(Get(result.props.options, YTickCallbackPath),
                  "memoryOptions.ticks.callback")
    /\ tick' = [fn |-> "memoryOptions.ticks.callback",
                value |-> value,
                out |-> memoryTickCallback(value)]
    /\ UNCHANGED <<themeStore, props, result, savedName, effect, seenTheme, clock,
                   tooltip, merged>>

\* the engine asks the value axis' tick callback of cpuOptions
CallCpuTick(value) ==
    /\ result.kind = "Chart"
    /\ IsFunction(Get(result.props.options, YTickCallbackPath),
                  "cpuOptions.ticks.callback")
    /\ tick' = [fn |-> "cpuOptions.ticks.callback",
                value |-> value,
                out |-> cpuTickCallback(value)]
    /\ UNCHANGED <<themeStore, props, result, savedName, effect, seenTheme, clock,
                   tooltip, merged>>

\* the engine asks for the tooltip title of the hovered tick
CallTooltipTitle(xLabel) ==
    /\ result.kind = "Chart"
    /\ IsFunction(Get(result.props.options, TitleCallbackPath),
                  "tooltips.callbacks.title")
    /\ tooltip' = [k |-> "call",
                   xLabel |-> xLabel,
                   now |-> clock.now,
                   out |-> tooltipTitle(xLabel, clock.now, clock.utcOffset)]
    /\ UNCHANGED <<themeStore, props, result, savedName, effect, seenTheme, clock,
                   tick, merged>>

\* the clock at the start, 2026-10-29T18:59:59.998Z in milliseconds
StartTime == <<1, 7, 9, 3, 3, 0, 0, 3, 9, 9, 9, 9, 8>>

RECURSIVE AddNat(_, _)
\* ds + n for a small n
AddNat(ds, n) == IF n = 0 THEN ds ELSE AddNat(IncNat(ds), n - 1)

\* the wall clock reads another time: it advances, or it is set, forward
\* or back
ClockTick ==
    /\ \E n \in 0..MaxNow :
          clock' = [clock EXCEPT !.now = MkNum(FALSE, AddNat(StartTime, n), <<>>)]
    /\ clock' # clock
    /\ UNCHANGED <<themeStore, props, result, savedName, effect, seenTheme, tick,
                   tooltip, merged>>

\* merge applied to the pair of option trees drawn at the start
ApplyMerge ==
    /\ merged.out.k = "absent"
    /\ merged' = [merged EXCEPT !.out = merge(merged.object, merged.source)]
    /\ UNCHANGED <<themeStore, props, result, savedName, effect, seenTheme, clock,
                   tick, tooltip>>

----------------------------------------------------------------------------
(* Inputs *)

Point(x, y) == Obj([x |-> Leaf(x), y |-> Leaf(y)])

EmptySet == Obj([label |-> Leaf("empty"), data |-> Arr(<<>>)])

OnePointSet == Obj([data |-> Arr(<<Point("60", "1")>>)])

TwoPointSet ==
    Obj([label |-> Leaf("usage"),
         data |-> Arr(<<Point("60", "1"), Point("120", "2")>>),
         barPercentage |-> Leaf("0.5"),
         borderWidth |-> Obj([bottom |-> Leaf("1")])])

LineSet ==
    Obj([data |-> Arr(<<Point("120", "2")>>),
         type |-> Leaf("line"),
         categoryPercentage |-> Undefined,
         borderWidth |-> Leaf("2"),
         borderColor |-> Leaf("red")])

EmptyStyledSet == Obj([data |-> Arr(<<>>), barPercentage |-> Leaf("0.5")])

DatasetUniverse == {EmptySet, OnePointSet, TwoPointSet, LineSet, EmptyStyledSet}

mkProps(datasets, options, step, name, plugins) ==
    [name |-> name,
     data |-> [labels |-> <<>>, datasets |-> datasets],
     className |-> Undefined,
     timeLabelStep |-> step,
     plugins |-> plugins,
     options |-> options]

\* the other props a caller passes: className and props of ChartProps that
\* BarChart does not name, type among them
NoExtraProps == [key \in {} |-> Undefined]

ExtraProps ==
    {NoExtraProps,
     [type |-> Leaf("line")],
     [className |-> Leaf("Metrics"), showLegend |-> Leaf("false")]}

\* what a caller passes beside the data: nothing, or options, step, name,
\* plugins and other props in some combinations
PropBundles ==
    {[options |-> Undefined, step |-> Undefined, name |-> Undefined,
      plugins |-> Undefined, extra |-> NoExtraProps],
     [options |-> memoryOptions, step |-> Num(5), name |-> Leaf("cpu"),
      plugins |-> List(<<>>), extra |-> [type |-> Leaf("line")]],
     [options |-> Undefined, step |-> Undefined, name |-> Leaf("cpu"),
      plugins |-> Undefined,
      extra |-> [className |-> Leaf("Metrics"), showLegend |-> Leaf("false")]],
     [options |-> cpuOptions, step |-> Num(5), name |-> Undefined,
      plugins |-> List(<<>>), extra |-> NoExtraProps]}

\* the datasets of the previous pass, with one appended or one dropped
DatasetMoves ==
    LET ds == IF result.kind = "none" THEN <<>> ELSE props.data.datasets
    IN  {ds}
        \cup (IF Len(ds) < MaxDatasets
              THEN {Append(ds, d) : d \in DatasetUniverse} ELSE {})
        \cup (IF ds # <<>> THEN {Tail(ds), SubSeq(ds, 1, Len(ds) - 1)} ELSE {})

ThemeColors ==
    [textColorPrimary : {"#8e9297", "#555555"},
     borderFaintColor : {"#373a3e", "#dfdfdf"},
     chartStripesColor : {"#ffffff08", "#00000009"}]

DarkColors ==
    [textColorPrimary |-> "#8e9297",
     borderFaintColor |-> "#373a3e",
     chartStripesColor |-> "#ffffff08"]

\* caller overrides that reach the theme-derived options, and some that do not
fontColorOverride ==
    Obj([scales |-> Obj([yAxes |-> Arr(<<Obj([
            ticks |-> Obj([fontColor |-> Leaf("red")])])>>)])])

gridColorOverride ==
    Obj([scales |-> Obj([yAxes |-> Arr(<<Obj([
            gridLines |-> Obj([color |-> Leaf("blue"),
                               lineWidth |-> Leaf("2")])])>>)])])

pluginsOffOverride == Obj([plugins |-> Leaf("false")])

legendOverride ==
    Obj([legend |-> Obj([display |-> Leaf("false")]),
         responsive |-> Leaf("false"),
         animation |-> Undefined])

\* an override that holds an object where barOptions holds a callback
callbackOverride ==
    Obj([scales |-> Obj([xAxes |-> Arr(<<Obj([
            ticks |-> Obj([callback |-> Obj([a |-> Leaf("o")])])])>>)])])

ThemeOverrides ==
    {Undefined, memoryOptions, cpuOptions, fontColorOverride, gridColorOverride,
     pluginsOffOverride, legendOverride, callbackOverride}

\* generic option trees: leaves, objects over GenKeys holding leaves, objects
\* and arrays, and arrays holding leaves and objects
GenKeys == {"a", "b"}

ObjectsOver(values) ==
    {Obj(f) : f \in UNION {[S -> values] : S \in SUBSET GenKeys}}

ArraysOver(values) ==
    {Arr(s) : s \in UNION {[1..n -> values] : n \in 0..MaxArrayLen}}

Level1(leaves) == leaves \cup ObjectsOver(leaves) \cup ArraysOver(leaves)

Level2(leaves) ==
    leaves
    \cup ObjectsOver(Level1(leaves))
    \cup ArraysOver(leaves \cup ObjectsOver(leaves))

GenericDefaults ==
    {EmptyObj} \cup {Obj([opt |-> t]) : t \in Level2({Leaf("d")})}

\* defaults that hold a function: as an option, in an object, in an array
FunctionDefaults ==
    {Obj([opt |-> t]) : t \in Level1({Fn("d")})}

GenericOverrides ==
    {Undefined, EmptyObj}
    \cup {Obj([opt |-> t]) : t \in Level2({Leaf("o"), Undefined})}

\* overrides that hold a function
FunctionOverrides ==
    {Obj([opt |-> t]) : t \in Level1({Fn("o")})}

\* sources that are no option tree: a string and other primitives
PrimitiveSources ==
    {Str(<<"s", "t", "r">>), Str(<<>>), Leaf("0"), Leaf("true")}

MergeInputs ==
    (GenericDefaults \X GenericOverrides)
    \cup ({Obj([opt |-> Leaf("d")])} \X PrimitiveSources)
    \cup (FunctionDefaults \X (GenericOverrides \cup FunctionOverrides))
    \cup ({barOptions(DarkColors)} \X ThemeOverrides)

\* the zones of the host: UTC and Asia/Kolkata
Zones == {0, 330}

\* timestamps of ticks, as the time axis hands them to the tick callback
Timestamps ==
    {<<"0">>,
     <<"1", "7", "9", "3", "3", "0", "0", "4", "0", "0", "0", "0", "0">>,
     <<"-", "6", "0", "0", "0", "0">>,
     <<" ", "4", "2">>,
     <<"\\u000b", "\\u00a0", "4", "2">>,
     <<"+", "3", "6", "0", "0", "0", "0", "0">>,
     <<"0", "x", "3", "6", "e", "e", "8", "0">>,
     <<"n", "/", "a">>}

\* the timestamp of most ticks drawn
MainTimestamp == <<"1", "7", "9", "3", "3", "0", "0", "4", "0", "0", "0", "0", "0">>

\* the ticks the engine asks a label for: every index with the main
\* timestamp, and every timestamp at the two edges, at index 30, which every
\* step divides, and at index 1
TimeTicks ==
    {<<MainTimestamp, index>> : index \in 0..MaxIndex}
    \cup (Timestamps \X {0, 1, 30, 60})

\* the steps a caller passes: none, whole numbers, a half and NaN
Steps ==
    {Undefined, NaN, MkNum(FALSE, <<2>>, <<5>>)} \cup {Num(n) : n \in 0..MaxStep}

\* tick values as binary fractions, in 64ths
Scale == 64

\* the number n / Scale
Frac(n) ==
    LET a == IF n < 0 THEN -n ELSE n
    IN  MkNum(n < 0, Digits(a \div Scale),
              StripTrail0(PadDigits((a % Scale) * ((10 ^ 6) \div Scale), 6)))

\* 10^21 and the double below it
Sextillion == <<"1", "e", "2", "1">>

BelowSextillion ==
    <<"9", "9", "9", "9", "9", "9", "9", "9", "9", "9", "9", "9", "9", "9", "9",
      "8", "6", "8", "9", "2", "8">>

\* tick values of a decimal axis: a grid of binary fractions around 0, 1, 10
\* and 100, the band edges and their neighbours, decimals that are no
\* binary fractions, large values and the values that are no finite number
TickNumbers ==
    {Frac(i * 37) : i \in -3..MaxTickValue}
    \cup {Frac(n) : n \in {1, 32, 63, 64, 65, 320, 639, 640, 641, 3520,
                           6399, 6400, 6401, 32000, 131072}}
    \cup {parseFloat(chars) :
            chars \in {<<"9", ".", "9", "9", "9", "5">>,
                       <<"9", "9", ".", "9", "9", "5">>,
                       <<"0", ".", "0", "0", "0", "4">>,
                       <<"0", ".", "3">>,
                       BelowSextillion, Sextillion, <<"-">> \o Sextillion}}
    \cup {NaN, Infinity(FALSE), Infinity(TRUE)}

\* tick values of a byte axis: numbers, and strings that denote numbers or
\* do not
ByteTickNumbers ==
    {Frac(n) : n \in {0, 1, 32, 37, 63, 64, 65, 96, 448, 131072, -32, -192}}
    \cup {parseFloat(chars) :
            chars \in {<<"0", ".", "9", "9", "9", "5">>,
                       <<"0", ".", "9", "9", "9", "9">>,
                       <<"0", ".", "0", "0", "0", "4">>,
                       <<"1", ".", "0", "0", "0", "0", "0", "0", "0", "0", "0",
                         "0", "0", "0", "0", "0", "0", "0", "2">>,
                       Sextillion, <<"-">> \o Sextillion}}
    \cup {NaN, Infinity(FALSE), Infinity(TRUE)}

ByteTickStrings ==
    {Str(<<"2", "0", "4", "8">>), Str(<<"0", ".", "5">>),
     Str(<<"0", ".", "9", "9", "9", "9">>), Str(<<" ", "7">>),
     Str(<<"1", "e", "3">>), Str(<<"+", "0", ".", "5">>),
     Str(<<"\\u000b", "0", ".", "5">>), Str(<<"\\u00a0", "7">>),
     Str(<<"I", "n", "f", "i", "n", "i", "t", "y">>),
     Str(<<"1", "2", "p", "x">>), Str(<<"a", "b", "c">>), Str(<<>>)}

\* the labels of hovered ticks: times around the clock's in milliseconds,
\* and date strings
XLabels ==
    {MkNum(FALSE, AddNat(StartTime, n), <<>>) : n \in 1..(MaxNow + 1)}
    \cup {MkNum(FALSE, AddNat(StartTime, 2), <<5>>)}
    \cup {Str(<<"2", "0", "3", "0", "-", "0", "1", "-", "0", "1">>),
          Str(<<"1", "9", "7", "0", "-", "0", "1", "-", "0", "1">>),
          Str(<<"J", "a", "n", " ", "1", ",", " ", "2", "0", "3", "0">>),
          Str(<<"O", "c", "t", " ", "2", "9", ",", " ", "2", "0", "2", "6", ",",
                " ", "7", ":", "0", "0", ":", "0", "0", " ", "p", "m">>),
          Str(<<"2", "0", "2", "6", "-", "1", "0", "-", "2", "9", "T", "1", "9",
                ":", "0", "0", ":", "0", "0", ".", "0", "0", "1", "Z">>),
          Str(<<"\\u000b", "2", "0", "3", "0", "-", "0", "1", "-", "0", "1">>),
          Str(<<"\\u00a0", "J", "a", "n", " ", "1", ",", " ", "2", "0", "3", "0">>),
          Str(<<"1", "/", "1", "/", "1", "0", "0">>),
          Str(<<"5">>),
          Str(<<"n", "/", "a">>)}

----------------------------------------------------------------------------
(* Specifications *)

\* the state before the first render pass, on a host in the given zone
InitAt(utcOffset) ==
    /\ themeStore = [activeTheme |-> [colors |-> DarkColors]]
    /\ props = [k |-> "none"]
    /\ result = [kind |-> "none"]
    /\ savedName = Undefined
    /\ effect = [k |-> "none"]
    /\ seenTheme = DarkColors
    /\ clock = [now |-> MkNum(FALSE, StartTime, <<>>), utcOffset |-> utcOffset]
    /\ tick = [fn |-> "none"]
    /\ tooltip = [k |-> "none"]

NoMerge == [object |-> EmptyObj, source |-> Undefined, out |-> Absent]

Init == InitAt(0) /\ merged = NoMerge

InitZoned == \E utcOffset \in Zones : InitAt(utcOffset) /\ merged = NoMerge

\* the props of a pass that are not the data
OtherProps(p) == [key \in DOMAIN p \ {"data"} |-> p[key]]

\* render passes over changing datasets, options, step, name and plugins:
\* the caller changes the datasets or the other props from one pass to the next
RenderData ==
    \E ds \in DatasetMoves, b \in PropBundles :
        LET p == b.extra @@ mkProps(ds, b.options, b.step, b.name, b.plugins)
        IN  /\ IF result.kind = "none" THEN TRUE
               ELSE ds = props.data.datasets \/ OtherProps(p) = OtherProps(props)
            /\ Render(p)

Next == RenderData \/ RunEffect

Spec == Init /\ [][Next]_vars

\* render passes interleaved with changes of the theme store
RenderThemed ==
    \E ds \in {<<EmptySet>>, <<OnePointSet>>}, o \in ThemeOverrides :
        Render(mkProps(ds, o, Undefined, Undefined, Undefined))

ChangeTheme == \E colors \in ThemeColors : SetTheme(colors)

NextTheme == RenderThemed \/ RunEffect \/ ChangeTheme

SpecTheme == Init /\ [][NextTheme]_vars

\* render passes over the label step, and the engine's time axis ticks
RenderStep ==
    \E step \in Steps :
        Render(mkProps(<<OnePointSet>>, Undefined, step, Undefined, Undefined))

TimeTick == \E t \in TimeTicks : CallFormatTimeLabels(t[1], t[2])

NextLabels == RenderStep \/ RunEffect \/ TimeTick

SpecLabels == InitZoned /\ [][NextLabels]_vars

\* render passes with and without cpuOptions, and the decimal axis ticks
RenderCpu ==
    \E o \in {Undefined, cpuOptions} :
        Render(mkProps(<<OnePointSet>>, o, Undefined, Undefined, Undefined))

CpuTick == \E value \in TickNumbers : CallCpuTick(value)

NextTicks == RenderCpu \/ RunEffect \/ CpuTick

SpecTicks == Init /\ [][NextTicks]_vars

\* render passes with and without memoryOptions, and the byte axis ticks
RenderMemory ==
    \E o \in {Undefined, memoryOptions} :
        Render(mkProps(<<OnePointSet>>, o, Undefined, Undefined, Undefined))

MemoryTick ==
    \E value \in ByteTickNumbers \cup ByteTickStrings : CallMemoryTick(value)

NextBytes == RenderMemory \/ RunEffect \/ MemoryTick

SpecBytes == Init /\ [][NextBytes]_vars

\* the tooltip title asked for while the clock advances
RenderOnce ==
    \E ds \in {<<EmptySet>>, <<OnePointSet>>} :
        Render(mkProps(ds, Undefined, Undefined, Undefined, Undefined))

HoverTick == \E xLabel \in XLabels : CallTooltipTitle(xLabel)

NextTooltip == RenderOnce \/ RunEffect \/ ClockTick \/ HoverTick

SpecTooltip == InitZoned /\ [][NextTooltip]_vars

\* merge applied to pairs of option trees
InitMerge ==
    /\ InitAt(0)
    /\ \E pair \in MergeInputs :
          merged = [object |-> pair[1], source |-> pair[2], out |-> Absent]

NextMerge == ApplyMerge

SpecMerge == InitMerge /\ [][NextMerge]_vars

----------------------------------------------------------------------------
(* Dataset normalisation and the "no data" exit (checked under Spec) *)

Rendered == result.kind \in {"Chart", "NoMetrics"}

InputSets == props.data.datasets

PointCount(set) == ArrayLength(set.f.data)

\* the positions of the caller's datasets that have at least one point
NonEmptyAt(datasets) == {i \in 1..Len(datasets) : PointCount(datasets[i]) >= 1}

\* the place in the output of the input dataset at position i
Rank(datasets, i) == Cardinality({j \in NonEmptyAt(datasets) : j <= i})

\* out holds exactly the non-empty datasets of in, in order, points unchanged
IsNonEmptySubsequence(in, out) ==
    /\ Len(out) = Cardinality(NonEmptyAt(in))
    /\ \A i \in NonEmptyAt(in) :
          /\ out[Rank(in, i)].f.data = in[i].f.data
          /\ \A key \in DOMAIN in[i].f : key \in DOMAIN out[Rank(in, i)].f
    /\ \A n \in 1..Len(out) : PointCount(out[n]) >= 1

\* C1: chartData.datasets holds exactly the input datasets that have at least
\* one point, in their original order and with their points unchanged; every
\* dataset with zero points is absent.
ThmC1_EmptyFilter ==
    Rendered => IsNonEmptySubsequence(InputSets, result.locals.chartData.datasets)

\* an empty dataset between two non-empty ones was dropped
WitC1_EmptyDropped ==
    /\ Rendered
    /\ Len(InputSets) = 3
    /\ NonEmptyAt(InputSets) = {1, 3}
    /\ InputSets[1] # InputSets[3]
    /\ Len(result.locals.chartData.datasets) = 2

\* C2: BarChart returns NoMetrics exactly when every input dataset has zero
\* points (no datasets at all included); otherwise it hands the engine a
\* configuration whose datasets are exactly the non-empty ones, whatever the
\* options, plugins, step and name are.
ThmC2_NoData ==
    Rendered =>
        /\ (result.kind = "NoMetrics") <=> (NonEmptyAt(InputSets) = {})
        /\ result.kind = "Chart" =>
              /\ IsNonEmptySubsequence(InputSets, result.props.data.datasets)
              /\ result.props.data = result.locals.chartData
              /\ result.props.options = result.locals.options
              /\ IsContainer(result.props.options)

\* one non-empty dataset among empty ones is rendered, with options, plugins,
\* step and name all passed
WitC2_OneNonEmpty ==
    /\ result.kind = "Chart"
    /\ Len(InputSets) = 3
    /\ Cardinality(NonEmptyAt(InputSets)) = 1
    /\ Len(result.props.data.datasets) = 1
    /\ props.options # Undefined
    /\ props.plugins # Undefined
    /\ props.timeLabelStep # Undefined
    /\ props.name # Undefined

DefaultedAttributes == {"type", "borderWidth", "barPercentage", "categoryPercentage"}

DefaultOf(key) ==
    CASE key = "type" -> Leaf("bar")
      [] key = "borderWidth" -> Obj([top |-> Leaf("3")])
      [] key = "barPercentage" -> Leaf("1")
      [] key = "categoryPercentage" -> Leaf("1")

\* C5: every normalized dataset has barPercentage 1, categoryPercentage 1,
\* borderWidth {top: 3} and the bar type for each of these attributes the
\* caller's dataset does not specify, and the caller's value, as a whole, for
\* every attribute it does specify.
ThmC5_DatasetDefaults ==
    Rendered =>
        LET in == InputSets
            out == result.locals.chartData.datasets
        IN  \A i \in NonEmptyAt(in) :
               LET set == out[Rank(in, i)]
               IN  /\ DOMAIN set.f = DOMAIN in[i].f \cup DefaultedAttributes
                   /\ \A key \in DOMAIN set.f :
                         set.f[key] = IF key \in DOMAIN in[i].f
                                      THEN in[i].f[key] ELSE DefaultOf(key)

\* a caller borderWidth object replaced the default one, beside a dataset
\* that took every default
WitC5_ShallowOverride ==
    /\ result.kind = "Chart"
    /\ \E n \in 1..Len(result.props.data.datasets) :
          /\ result.props.data.datasets[n].f.borderWidth = Obj([bottom |-> Leaf("1")])
          /\ result.props.data.datasets[n].f.categoryPercentage = Leaf("1")
    /\ \E n \in 1..Len(result.props.data.datasets) :
          /\ result.props.data.datasets[n].f.borderWidth = Obj([top |-> Leaf("3")])
          /\ result.props.data.datasets[n].f.type = Leaf("bar")


----------------------------------------------------------------------------
(* The time axis labels (checked under SpecLabels) *)

FiveSpaces == <<" ", " ", " ", " ", " ">>

\* twice the number x, x being a small whole number or a whole number of
\* halves
TwiceOf(x) == DigitsValue(MulAddNat(x.int \o x.frac, 2, 0), 0) \div (10 ^ Len(x.frac))

\* index is m times the step for a whole number m
IsMultipleOf(index, step) == \E m \in 0..index : m * TwiceOf(step) = 2 * index

\* a 24-hour HH:mm string
IsHHmm(chars) ==
    /\ Len(chars) = 5
    /\ chars[3] = ":"
    /\ \A i \in {1, 2, 4, 5} : chars[i] \in DigitChars
    /\ DigitsValue(ToDigits(<<chars[1], chars[2]>>), 0) \in 0..23
    /\ DigitsValue(ToDigits(<<chars[4], chars[5]>>), 0) \in 0..59

\* the HH:mm labels of the timestamps drawn, on a host at UTC and on one 5
\* hours 30 minutes east of it, read off a clock: 1793300400000 is
\* 2026-10-29T19:00:00Z, -60000 a minute before midnight, 0x36ee80 and
\* +3600000 an hour after it, 42 behind white space of any kind midnight
ExpectedLabel(timestamp, utcOffset) ==
    CASE timestamp = <<"0">> ->
           IF utcOffset = 0 THEN <<"0", "0", ":", "0", "0">>
           ELSE <<"0", "5", ":", "3", "0">>
      [] timestamp = <<" ", "4", "2">> ->
           IF utcOffset = 0 THEN <<"0", "0", ":", "0", "0">>
           ELSE <<"0", "5", ":", "3", "0">>
      [] timestamp = <<"\\u000b", "\\u00a0", "4", "2">> ->
           IF utcOffset = 0 THEN <<"0", "0", ":", "0", "0">>
           ELSE <<"0", "5", ":", "3", "0">>
      [] timestamp = <<"-", "6", "0", "0", "0", "0">> ->
           IF utcOffset = 0 THEN <<"2", "3", ":", "5", "9">>
           ELSE <<"0", "5", ":", "2", "9">>
      [] timestamp = <<"+", "3", "6", "0", "0", "0", "0", "0">> ->
           IF utcOffset = 0 THEN <<"0", "1", ":", "0", "0">>
           ELSE <<"0", "6", ":", "3", "0">>
      [] timestamp = <<"0", "x", "3", "6", "e", "e", "8", "0">> ->
           IF utcOffset = 0 THEN <<"0", "1", ":", "0", "0">>
           ELSE <<"0", "6", ":", "3", "0">>
      [] timestamp = <<"1", "7", "9", "3", "3", "0", "0", "4", "0", "0", "0", "0", "0">> ->
           IF utcOffset = 0 THEN <<"1", "9", ":", "0", "0">>
           ELSE <<"0", "0", ":", "3", "0">>
      [] OTHER -> <<"I", "n", "v", "a", "l", "i", "d", " ", "d", "a", "t", "e">>

----------------------------------------------------------------------------
(* The value axis ticks (checked under SpecTicks and SpecBytes) *)

\* ds - 1, for the digits of a natural above 0
DecNat(ds) ==
    LET n == Len(ds)
        p == CHOOSE i \in 1..n : ds[i] # 0 /\ \A j \in (i + 1)..n : ds[j] = 0
    IN  [i \in 1..n |-> IF i < p THEN ds[i] ELSE IF i = p THEN ds[i] - 1 ELSE 9]

\* the decimal whose digits are ds, the last `places` of them its fraction
Dec(ds, places) ==
    LET all == Zeros(places - Len(ds)) \o ds
    IN  [int |-> Strip0(SubSeq(all, 1, Len(all) - places)),
         frac |-> SubSeq(all, Len(all) - places + 1, Len(all))]

\* the order of two decimals: -1, 0 or 1
CmpDec(a, b) ==
    IF CmpNat(a.int, b.int) # 0 THEN CmpNat(a.int, b.int) ELSE CmpFrac(a.frac, b.frac)

\* chars is the number x written with exactly `digits` digits after the
\* point, and no decimal of that many places is nearer to x
IsFixed(chars, x, digits) ==
    LET neg == chars # <<>> /\ Head(chars) = "-"
        body == IF neg THEN Tail(chars) ELSE chars
        dots == {i \in 1..Len(body) : body[i] = "."}
    IN  /\ x.k = "num"
        /\ neg <=> x.neg
        /\ Cardinality(dots) = 1
        /\ LET dot == CHOOSE i \in dots : TRUE
               int == SubSeq(body, 1, dot - 1)
               frac == SubSeq(body, dot + 1, Len(body))
           IN  /\ Len(int) >= 1
               /\ Len(int) > 1 => int[1] # "0"
               /\ Len(frac) = digits
               /\ \A i \in 1..Len(body) : i # dot => body[i] \in DigitChars
               /\ LET shown == Strip0(ToDigits(int \o frac))
                  IN  /\ CmpDec(x, Dec(shown \o <<5>>, digits + 1)) <= 0
                      /\ shown # <<>> =>
                            CmpDec(Dec(DecNat(shown) \o <<5>>, digits + 1), x) <= 0

\* a finite number of magnitude below 10^21
IsBelowSextillion(x) == x.k = "num" /\ Len(x.int) <= 21

HasPoint(chars) == \E i \in 1..Len(chars) : chars[i] = "."

----------------------------------------------------------------------------
(* The tooltip title (checked under SpecTooltip, whose wall clock may be   *)
(* set forward or back between two calls)                                  *)

\* the text of a label: a string as it is, a number in decimal notation
LabelText(xLabel) ==
    IF xLabel.k = "str" THEN xLabel.s
    ELSE ToChars(xLabel.int)
         \o (IF xLabel.frac = <<>> THEN <<>> ELSE <<".">> \o ToChars(xLabel.frac))

\* the time of a label: of a number its whole milliseconds, of a string the
\* date it denotes on the host
LabelTime(xLabel) ==
    IF xLabel.k = "str" THEN dateParse(xLabel.s, clock.utcOffset)
    ELSE MkNum(xLabel.neg, xLabel.int, <<>>)

\* the time t is after the clock's, both whole milliseconds
IsAfter(t, now) ==
    IF t.neg # now.neg THEN now.neg
    ELSE IF t.neg THEN CmpNat(t.int, now.int) < 0 ELSE CmpNat(t.int, now.int) > 0

\* the statement of C8 as it stands: the title is the empty string when the
\* tick's timestamp is strictly greater than the clock read at the call, and
\* the tick's label when it is less or equal; a tick whose title was its
\* label never has an empty title again.
CexC8_NeverBack ==
    [][tooltip' # tooltip =>
         LET xLabel == tooltip'.xLabel
             t == LabelTime(xLabel)
         IN  /\ t.k = "num" =>
                   tooltip'.out = IF IsAfter(t, clock.now) THEN <<>>
                                  ELSE LabelText(xLabel)
             /\ (tooltip.k = "call" /\ tooltip.xLabel = xLabel
                 /\ tooltip.out = LabelText(xLabel)) =>
                   tooltip'.out = LabelText(xLabel)]_vars

\* C8, amended: the title is the empty string when the tick's timestamp is
\* strictly greater than the clock read at the call, and the tick's label
\* when it is less or equal; a tick whose title was its label has no empty
\* title again as long as the clock is not set back.
ThmC8_TooltipTitle ==
    [][tooltip' # tooltip =>
         LET xLabel == tooltip'.xLabel
             t == LabelTime(xLabel)
         IN  /\ tooltip'.now = clock.now
             /\ t.k = "num" =>
                   tooltip'.out = IF IsAfter(t, clock.now) THEN <<>>
                                  ELSE LabelText(xLabel)
             /\ xLabel = Str(<<"2", "0", "3", "0", "-", "0", "1", "-", "0", "1">>) =>
                   /\ t = MkNum(FALSE, <<1, 8, 9, 3, 4, 5, 6>> \o Zeros(6), <<>>)
                   /\ tooltip'.out = <<>>
             /\ xLabel = Str(<<"1", "9", "7", "0", "-", "0", "1", "-", "0", "1">>) =>
                   t = Zero /\ tooltip'.out = xLabel.s
             /\ xLabel = Str(<<"\\u000b", "2", "0", "3", "0", "-", "0", "1", "-", "0", "1">>) =>
                   /\ t = MkNum(FALSE,
                                IF clock.utcOffset = 0
                                THEN <<1, 8, 9, 3, 4, 5, 6>> \o Zeros(6)
                                ELSE <<1, 8, 9, 3, 4, 3, 6, 2>> \o Zeros(5), <<>>)
                   /\ tooltip'.out = <<>>
             /\ xLabel = Str(<<"\\u00a0", "J", "a", "n", " ", "1", ",", " ", "2", "0", "3", "0">>) =>
                   /\ t = MkNum(FALSE,
                                IF clock.utcOffset = 0
                                THEN <<1, 8, 9, 3, 4, 5, 6>> \o Zeros(6)
                                ELSE <<1, 8, 9, 3, 4, 3, 6, 2>> \o Zeros(5), <<>>)
                   /\ tooltip'.out = <<>>
             /\ xLabel = Str(<<"1", "/", "1", "/", "1", "0", "0">>) =>
                   /\ t = MkNum(TRUE,
                                IF clock.utcOffset = 0
                                THEN <<5, 9, 0, 1, 1, 4, 5, 9, 2>> \o Zeros(5)
                                ELSE <<5, 9, 0, 1, 1, 4, 8, 0, 4, 0, 8>> \o Zeros(3), <<>>)
                   /\ tooltip'.out = xLabel.s
             /\ (tooltip.k = "call" /\ tooltip.xLabel = xLabel
                 /\ tooltip.out = LabelText(xLabel)
                 /\ ~IsAfter(tooltip.now, clock.now)) =>
                   tooltip'.out = LabelText(xLabel)]_vars

\* a tick hovered at the very millisecond of its timestamp shows its label
WitC8_Boundary ==
    /\ tooltip.k = "call"
    /\ clock.utcOffset = 0
    /\ tooltip.xLabel = Str(<<"O", "c", "t", " ", "2", "9", ",", " ", "2", "0", "2",
                              "6", ",", " ", "7", ":", "0", "0", ":", "0", "0",
                              " ", "p", "m">>)
    /\ tooltip.now = MkNum(FALSE, AddNat(StartTime, 2), <<>>)
    /\ tooltip.out = tooltip.xLabel.s

----------------------------------------------------------------------------
(* Override precedence *)

Prefixes(path) == {SubSeq(path, 1, n) : n \in 1..Len(path)}

\* merge combines the source's value with the object's, property by
\* property: a source object with an object, an array or a function, a
\* source array with an array
MergesInto(srcValue, objValue) ==
    \/ srcValue.k = "obj" /\ IsObject(objValue)
    \/ srcValue.k = "arr" /\ objValue.k = "arr"

\* the override holds, at the path or above it, a value (other than
\* undefined) that takes the place of what the default holds there
Displaces(object, source, path) ==
    \E q \in Prefixes(path) :
        /\ Get(source, q).k \in {"leaf", "fn", "obj", "arr"}
        /\ ~MergesInto(Get(source, q), Get(object, q))

MergeApplied == merged.out.k # "absent"

\* the statement of C4 as it stands: at every path where the override has
\* a value that is no object or array, the final configuration holds that
\* value, undefined included; every default value the override holds nothing
\* at or above is kept; merge never fails.
CexC4_EveryDefinedPath ==
    MergeApplied =>
        LET d == merged.object
            o == merged.source
            m == merged.out
        IN  /\ m.k = "obj"
            /\ \A p \in Paths(o) :
                  (IsValueLeaf(Get(o, p)) \/ Get(o, p) = Undefined) =>
                      Get(m, p) = Get(o, p)
            /\ \A p \in Paths(d) :
                  (~Displaces(d, o, p) /\ ~IsObject(Get(d, p))) =>
                      Get(m, p) = Get(d, p)

\* C4, amended: for every option path, at any depth, the final configuration
\* holds the override's value where the override defines the path with a
\* value other than undefined, and the default's value where it does not
\* (an undefined in the override leaves the default's value in place); an
\* option only the override has appears unchanged; a conflict is never an
\* error.
ThmC4_OverridePrecedence ==
    MergeApplied =>
        LET d == merged.object
            o == merged.source
            m == merged.out
        IN  /\ m.k = "obj"
            /\ o.k = "str" =>
                  \A i \in 1..Len(o.s) : Get(m, <<IdxKey(i)>>) = Leaf(o.s[i])
            /\ \A p \in Paths(o) :
                  /\ IsValueLeaf(Get(o, p)) => Get(m, p) = Get(o, p)
                  /\ (Get(o, p).k \in {"obj", "arr"}
                      /\ ~MergesInto(Get(o, p), Get(d, p))) =>
                        Get(m, p) = Get(o, p)
            /\ \A p \in Paths(o) :
                  (Get(o, p) = Undefined
                   /\ ~Displaces(d, o, SubSeq(p, 1, Len(p) - 1))) =>
                        Get(m, p) = IF Get(d, p) = Absent THEN Undefined
                                    ELSE Get(d, p)
            /\ \A p \in Paths(d) :
                  ~Displaces(d, o, p) =>
                      /\ ~IsObject(Get(d, p)) => Get(m, p) = Get(d, p)
                      /\ Get(d, p).k = "fn" =>
                            /\ IsFunction(Get(m, p), Get(d, p).v)
                            /\ Get(o, p).k # "obj" => Get(m, p) = Get(d, p)

\* an override value won three levels down, beside a default it left alone
\* and an option only the override has
WitC4_DeepConflict ==
    /\ MergeApplied
    /\ \E p \in Paths(merged.source), q \in Paths(merged.object) :
          /\ Len(p) = 3 /\ Len(q) = 3
          /\ p # q /\ SubSeq(p, 1, 2) = SubSeq(q, 1, 2)
          /\ Get(merged.object, p) = Leaf("d")
          /\ Get(merged.source, p) = Leaf("o")
          /\ Get(merged.out, p) = Leaf("o")
          /\ Get(merged.source, q) = Absent
          /\ Get(merged.out, q) = Leaf("d")
    /\ \E p \in Paths(merged.source) :
          /\ Get(merged.object, p) = Absent
          /\ Get(merged.out, p) = Leaf("o")

\* the statement of C10 as it stands: where the override supplies an array,
\* the final configuration holds that array, the default's replaced wholesale
CexC10_ArraysAtomic ==
    MergeApplied =>
        \A p \in Paths(merged.source) :
            Get(merged.source, p).k = "arr" =>
                Get(merged.out, p) = Get(merged.source, p)

ElementAt(array, i) ==
    IF IdxKey(i) \in DOMAIN array.f THEN array.f[IdxKey(i)] ELSE Absent

MaxOf(a, b) == IF a >= b THEN a ELSE b

\* C10, amended: an override array is merged into a default array index by
\* index. The result is as long as the longer of the two, keeps the default's
\* elements the override's array does not reach (or leaves undefined), takes
\* the override's element where that is a plain value or the default's
\* element is nothing it merges into, and combines an object element with
\* the default's key by key; only where the default holds no array is the
\* result the override's array as is.
ThmC10_ArraysByIndex ==
    MergeApplied =>
        \A p \in Paths(merged.source) :
            LET oa == Get(merged.source, p)
                da == Get(merged.object, p)
                ma == Get(merged.out, p)
            IN  oa.k = "arr" =>
                    /\ ma.k = "arr"
                    /\ da.k # "arr" => ma = oa
                    /\ da.k = "arr" =>
                          /\ ArrayLength(ma) = MaxOf(ArrayLength(da), ArrayLength(oa))
                          /\ \A i \in 1..ArrayLength(ma) :
                                LET oe == ElementAt(oa, i)
                                    de == ElementAt(da, i)
                                    me == ElementAt(ma, i)
                                IN  /\ oe.k = "absent" => me = de
                                    /\ (oe.k = "undef" /\ de.k # "absent") => me = de
                                    /\ IsValueLeaf(oe) => me = oe
                                    /\ (IsContainer(oe) /\ ~MergesInto(oe, de)) =>
                                          me = oe
                                    /\ (oe.k = "obj" /\ IsObject(de)) =>
                                          /\ me.k = de.k
                                          /\ DOMAIN me.f = DOMAIN de.f \cup DOMAIN oe.f
                                          /\ \A key \in DOMAIN oe.f :
                                                IsValueLeaf(oe.f[key]) =>
                                                    me.f[key] = oe.f[key]
                                          /\ \A key \in DOMAIN de.f \ DOMAIN oe.f :
                                                me.f[key] = de.f[key]

YAxesPath == <<"scales", "yAxes">>

\* memoryOptions' yAxes array merged into the default one: one axis, which
\* keeps its position and tick limit and gains the byte tick callback
WitC10_MemoryAxes ==
    /\ MergeApplied
    /\ merged.source = memoryOptions
    /\ ArrayLength(Get(merged.out, YAxesPath)) = 1
    /\ Get(merged.out, YAxesPath \o <<"0", "position">>) = Leaf("right")
    /\ Get(merged.out, YAxesPath \o <<"0", "ticks", "maxTicksLimit">>) = Leaf("6")
    /\ Get(merged.out, YTickCallbackPath) = Fn("memoryOptions.ticks.callback")
    /\ Get(merged.out, YAxesPath) # Get(merged.source, YAxesPath)

----------------------------------------------------------------------------
(* Theme freshness (checked under SpecTheme) *)

XFontColorPath == <<"scales", "xAxes", "0", "ticks", "fontColor">>

YFontColorPath == <<"scales", "yAxes", "0", "ticks", "fontColor">>

GridColorPath == <<"scales", "yAxes", "0", "gridLines", "color">>

StripeColorPath == <<"plugins", "ZebraStripes", "stripeColor">>

ThemePaths == {XFontColorPath, YFontColorPath, GridColorPath, StripeColorPath}

\* the theme color an option is derived from
ThemeColorAt(colors, path) ==
    IF path \in {XFontColorPath, YFontColorPath} THEN Leaf(colors.textColorPrimary)
    ELSE IF path = GridColorPath THEN Leaf(colors.borderFaintColor)
    ELSE Leaf(colors.chartStripesColor)

\* a step of the component: a render pass or the effect it left
IsPass == effect' # effect

\* the statement of C9 as it stands: the theme-derived colors of every
\* configuration equal the theme's colors at that pass
CexC9_AlwaysThemeColors ==
    [][/\ result'.kind = "Chart" =>
            \A p \in ThemePaths :
                Get(result'.props.options, p) = ThemeColorAt(seenTheme', p)
       /\ IsPass => themeStore' = themeStore]_vars

\* C9, amended: in the configuration of each pass every theme-derived color
\* that the caller override does not displace equals the theme's color as it
\* is at that pass, never an earlier one; a color the override sets is the
\* override's; no pass writes the theme store.
ThmC9_ThemeFreshness ==
    [][/\ result'.kind = "Chart" =>
            \A p \in ThemePaths :
                /\ ~Displaces(barOptions(seenTheme'), props'.options, p) =>
                      Get(result'.props.options, p) = ThemeColorAt(seenTheme', p)
                /\ IsValueLeaf(Get(props'.options, p)) =>
                      Get(result'.props.options, p) = Get(props'.options, p)
       /\ IsPass => themeStore' = themeStore]_vars

\* a pass after a change of theme: the new text color on the time axis, the
\* override's on the value axis
WitC9_NewTheme ==
    /\ result.kind = "Chart"
    /\ seenTheme.textColorPrimary # DarkColors.textColorPrimary
    /\ props.options = fontColorOverride
    /\ Get(result.props.options, XFontColorPath) = Leaf(seenTheme.textColorPrimary)
    /\ Get(result.props.options, YFontColorPath) = Leaf("red")
    /\ Get(result.props.options, GridColorPath) = Leaf(seenTheme.borderFaintColor)

====
